---------------------------- MODULE Spec2Model ----------------------------
(***************************************************************************)
(* Balanced hierarchical k-means of raft::spatial::knn::detail::kmeans     *)
(* (predict, calc_centers_and_sizes, adjust_centers, balancing_em_iters,   *)
(* build_clusters, arrange_fine_clusters) and the helpers of               *)
(* raft::spatial::knn::detail::utils it uses.                              *)
(*                                                                         *)
(* Arrays are 0-based functions over 0..(n-1), matrices are row-major flat *)
(* arrays indexed j + dim * i as in the source.  float values are exact    *)
(* rationals <<numerator, denominator>> in lowest terms.                   *)
(***************************************************************************)
EXTENDS Integers, Sequences, FiniteSets, TLC

(***************************************************************************)
(* Bounds of the model.                                                    *)
(***************************************************************************)
MaxRows == 3

MaxClusters == 3

Dims == {1, 2}

ElemTypes == {"float", "int8_t", "uint8_t"}

(***************************************************************************)
(* Integer helpers.                                                        *)
(***************************************************************************)
Min(a, b) == IF a <= b THEN a ELSE b

Max(a, b) == IF a >= b THEN a ELSE b

Abs(x) == IF x < 0 THEN -x ELSE x

ceildiv(a, b) == (a + b - 1) \div b

RECURSIVE GCD(_, _)
GCD(a, b) == IF b = 0 THEN a ELSE GCD(b, a % b)

Array(n, f(_)) == [k \in 0..(n - 1) |-> f(k)]

Slice(a, from, len) == [k \in 0..(len - 1) |-> a[from + k]]

RECURSIVE SumTo(_, _)
SumTo(f, n) == IF n = 0 THEN 0 ELSE f[n - 1] + SumTo(f, n - 1)

(***************************************************************************)
(* float as exact rationals.                                               *)
(***************************************************************************)
Rat(n, d) == LET g == GCD(Abs(n), d) IN <<n \div g, d \div g>>

RatZero == <<0, 1>>

RatInt(n) == <<n, 1>>

DenGCD(a, b) == LET g == GCD(a[2], b[2]) IN IF g = 0 THEN 1 ELSE g

RatAdd(a, b) == LET g == DenGCD(a, b)
                IN  Rat(a[1] * (b[2] \div g) + b[1] * (a[2] \div g), (a[2] \div g) * b[2])

RatNeg(a) == <<-a[1], a[2]>>

RatMul(a, b) == LET g1 == GCD(Abs(a[1]), b[2])
                    g2 == GCD(Abs(b[1]), a[2])
                IN  Rat((a[1] \div g1) * (b[1] \div g2), (a[2] \div g2) * (b[2] \div g1))

RatDiv(a, b) == IF b[1] > 0 THEN Rat(a[1] * b[2], a[2] * b[1])
                ELSE Rat(-(a[1] * b[2]), a[2] * (-b[1]))

RatLT(a, b) == LET g == DenGCD(a, b) IN a[1] * (b[2] \div g) < b[1] * (a[2] \div g)

RatLE(a, b) == LET g == DenGCD(a, b) IN a[1] * (b[2] \div g) <= b[1] * (a[2] \div g)

RECURSIVE RatSumTo(_, _)
RatSumTo(f, n) == IF n = 0 THEN RatZero ELSE RatAdd(f[n - 1], RatSumTo(f, n - 1))

\* The rows a dataset is drawn from, as written and as elements of type T: a float
\* element is a rational, an integral element an integer.
RawRows(T, d) ==
    IF T = "uint8_t"
    THEN (IF d = 1 THEN {<<0>>, <<1>>, <<3>>} ELSE {<<0, 3>>, <<3, 1>>, <<1, 1>>})
    ELSE (IF d = 1 THEN {<<-1>>, <<0>>, <<2>>} ELSE {<<-1, 2>>, <<2, 0>>, <<1, 1>>})

ElemRows(T, raws) ==
    IF T = "float" THEN {[j \in DOMAIN r |-> RatInt(r[j])] : r \in raws} ELSE raws

Rows(T, d) == ElemRows(T, RawRows(T, d))

\* Row-major datasets of n rows drawn from the set rows.
Datasets(rows, n, d) ==
    {[idx \in 0..(n * d - 1) |-> rs[idx \div d][(idx % d) + 1]] : rs \in [0..(n - 1) -> rows]}

(***************************************************************************)
(* Naturals beyond the range of the checker's integers, for the 64-bit and *)
(* 32-bit unsigned arithmetic of the code: little-endian sequences of      *)
(* digits in base 256 with no leading zero digit.                          *)
(***************************************************************************)
BigBase == 256

RECURSIVE BigNorm(_)
BigNorm(a) == IF a /= << >> /\ a[Len(a)] = 0 THEN BigNorm(SubSeq(a, 1, Len(a) - 1)) ELSE a

RECURSIVE BigFromInt(_)
BigFromInt(n) == IF n = 0 THEN << >> ELSE <<n % BigBase>> \o BigFromInt(n \div BigBase)

RECURSIVE BigToInt(_)
BigToInt(a) == IF a = << >> THEN 0 ELSE Head(a) + BigBase * BigToInt(Tail(a))

RECURSIVE BigAddC(_, _, _)
BigAddC(a, b, c) ==
    IF a = << >> /\ b = << >> THEN (IF c = 0 THEN << >> ELSE <<c>>)
    ELSE LET x == IF a = << >> THEN 0 ELSE Head(a)
             y == IF b = << >> THEN 0 ELSE Head(b)
             t == x + y + c
         IN  <<t % BigBase>> \o BigAddC(IF a = << >> THEN a ELSE Tail(a),
                                        IF b = << >> THEN b ELSE Tail(b), t \div BigBase)

BigAdd(a, b) == BigAddC(a, b, 0)

\* a - b for a >= b.
RECURSIVE BigSubB(_, _, _)
BigSubB(a, b, borrow) ==
    IF a = << >> THEN << >>
    ELSE LET y == IF b = << >> THEN 0 ELSE Head(b)
             t == Head(a) - y - borrow
         IN  <<t % BigBase>> \o BigSubB(Tail(a), IF b = << >> THEN b ELSE Tail(b),
                                        IF t < 0 THEN 1 ELSE 0)

BigSub(a, b) == BigNorm(BigSubB(a, b, 0))

\* a * m for a small m.
RECURSIVE BigMulSmallC(_, _, _)
BigMulSmallC(a, m, c) ==
    IF a = << >> THEN BigFromInt(c)
    ELSE LET t == Head(a) * m + c
         IN  <<t % BigBase>> \o BigMulSmallC(Tail(a), m, t \div BigBase)

BigMulSmall(a, m) == BigNorm(BigMulSmallC(a, m, 0))

RECURSIVE BigMul(_, _)
BigMul(a, b) ==
    IF a = << >> \/ b = << >> THEN << >>
    ELSE BigNorm(BigAdd(BigMulSmall(a, Head(b)), <<0>> \o BigMul(a, Tail(b))))

RECURSIVE BigLT(_, _)
BigLT(a, b) ==
    IF Len(a) /= Len(b) THEN Len(a) < Len(b)
    ELSE IF a = << >> THEN FALSE
    ELSE IF a[Len(a)] /= b[Len(b)] THEN a[Len(a)] < b[Len(b)]
    ELSE BigLT(SubSeq(a, 1, Len(a) - 1), SubSeq(b, 1, Len(b) - 1))

BigLE(a, b) == ~BigLT(b, a)

\* floor(a / d) for a small d, by long division from the top digit.
RECURSIVE BigDivSmallR(_, _, _)
BigDivSmallR(a, d, r) ==
    IF a = << >> THEN << >>
    ELSE LET t == r * BigBase + a[Len(a)]
         IN  BigDivSmallR(SubSeq(a, 1, Len(a) - 1), d, t % d) \o <<t \div d>>

BigDivSmall(a, d) == BigNorm(BigDivSmallR(a, d, 0))

\* 2^k: the digit 2^(k mod 8) above k div 8 zero digits.
BigPow2(k) == [d \in 1..(k \div 8 + 1) |-> IF d = k \div 8 + 1 THEN 2 ^ (k % 8) ELSE 0]

\* a modulo 2^(8 * bytes): what an unsigned integer of that many bytes keeps.
BigWrap(a, bytes) == BigNorm(SubSeq(a, 1, Min(Len(a), bytes)))

(***************************************************************************)
(* utils::mapping<float>: cast a dataset element to float, scaling the     *)
(* integral types by config<float>::kDivisor / config<S>::kDivisor.        *)
(***************************************************************************)
kDivisor(T) == CASE T = "float" -> 1 [] T = "uint8_t" -> 256 [] T = "int8_t" -> 128

mapping(T, x) == IF T = "float" THEN x
                 ELSE RatMul(RatInt(x), Rat(kDivisor("float"), kDivisor(T)))

(***************************************************************************)
(* utils::map_along_rows: m[i, j] = op(m[i, j], v[i]), with the op its one *)
(* caller passes, c * s; gid / n_cols is the row of element gid.           *)
(***************************************************************************)
map_along_rows(n_rows_, n_cols, m, v) ==
    [gid \in DOMAIN m |->
        IF gid \div n_cols >= n_rows_ THEN m[gid]
        ELSE RatMul(m[gid], RatInt(v[gid \div n_cols]))]

(***************************************************************************)
(* raft::linalg::reduce_rows_by_key: per key, the sum of the rows carrying *)
(* that key, added to the sums already there unless reset_sums.            *)
(***************************************************************************)
RECURSIVE KeyedSum(_, _, _, _, _, _, _)
KeyedSum(T, data, keys, n, ncols, k, j) ==
    IF n = 0 THEN RatZero
    ELSE LET rest == KeyedSum(T, data, keys, n - 1, ncols, k, j)
         IN  IF keys[n - 1] = k THEN RatAdd(rest, mapping(T, data[j + ncols * (n - 1)]))
             ELSE rest

reduce_rows_by_key(T, data, keys, nrows, ncols, nkeys, sums, reset_sums) ==
    [idx \in 0..(nkeys * ncols - 1) |->
        RatAdd(IF reset_sums THEN RatZero ELSE sums[idx],
               KeyedSum(T, data, keys, nrows, ncols, idx \div ncols, idx % ncols))]

(***************************************************************************)
(* raft::cluster::detail::countLabels: the histogram of the labels.        *)
(***************************************************************************)
RECURSIVE CountKey(_, _, _)
CountKey(keys, n, k) ==
    IF n = 0 THEN 0
    ELSE CountKey(keys, n - 1, k) + (IF keys[n - 1] = k THEN 1 ELSE 0)

countLabels(labels_, n_samples, n_clusters_) ==
    [k \in 0..(n_clusters_ - 1) |-> CountKey(labels_, n_samples, k)]

(***************************************************************************)
(* kmeans::calc_centers_and_sizes.  The result is the pair of output       *)
(* arrays.  With reset_counters the label counts are written straight into *)
(* cluster_sizes (temp_sizes aliases it); without, they are counted into a *)
(* temporary and added.                                                    *)
(***************************************************************************)
calc_sizes_mutant_keep(cluster_sizes_, temp_sizes, reset_counters) ==
    [idx \in DOMAIN temp_sizes |-> temp_sizes[idx] + cluster_sizes_[idx]]

calc_sizes(cluster_sizes_, temp_sizes, reset_counters) ==
    [idx \in DOMAIN temp_sizes |->
        IF ~reset_counters THEN temp_sizes[idx] + cluster_sizes_[idx]
        ELSE temp_sizes[idx]]

calc_weighted_mutant_unweighted(centers_, cluster_sizes_, n_clusters_, dim_, reset_counters) ==
    centers_

calc_weighted(centers_, cluster_sizes_, n_clusters_, dim_, reset_counters) ==
    IF ~reset_counters
    THEN map_along_rows(n_clusters_, dim_, centers_, cluster_sizes_)
    ELSE centers_

\* An unguarded float division of 0 by 0 leaves a NaN, written 0/0.
divide_or_zero_mutant_unguarded(mat, vec) ==
    IF vec = RatZero THEN <<mat[1], 0>> ELSE RatDiv(mat, vec)

\* The op of the final matrixVectorOp: the center sum over the float size.
divide_or_zero(mat, vec) ==
    IF vec = RatZero THEN RatZero ELSE RatDiv(mat, vec)

calc_centers_and_sizes(centers_, cluster_sizes_, n_clusters_, dim_, T, dataset_, n_rows_, labels_, reset_counters) ==
    LET weighted == calc_weighted(centers_, cluster_sizes_, n_clusters_, dim_,
                                  reset_counters)
        sums == reduce_rows_by_key(T, dataset_, labels_, n_rows_, dim_, n_clusters_,
                                   weighted, reset_counters)
        temp_sizes == countLabels(labels_, n_rows_, n_clusters_)
        new_sizes == calc_sizes(cluster_sizes_, temp_sizes, reset_counters)
        sizes_f == [idx \in DOMAIN new_sizes |-> RatInt(new_sizes[idx])]
    IN  [centers |->
            [idx \in DOMAIN sums |-> divide_or_zero(sums[idx], sizes_f[idx \div dim_])],
         cluster_sizes |-> new_sizes]


(***************************************************************************)
(* Distance metrics.  predict supports three; the others stand for every   *)
(* other value of raft::distance::DistanceType.                            *)
(***************************************************************************)
Metrics == {"L2Expanded", "L2SqrtExpanded", "InnerProduct", "CosineExpanded", "L1"}

IsL2(m) == m \in {"L2Expanded", "L2SqrtExpanded"}

\* raft::upper_bound<float>(): compares above every finite value.
upper_bound == <<1, 0>>

(***************************************************************************)
(* utils::argmin_along_rows_kernel for row i: every thread scans the       *)
(* columns threadIdx.x, threadIdx.x + blockDim.x, ... and the block then   *)
(* reduces the per-thread minima in shared memory, halving the offset.     *)
(***************************************************************************)
scan_improves_mutant_ties(min_val, val) == RatLE(val, min_val)

\* if (min_val > a[j + n_cols * i])
scan_improves(min_val, val) == RatLT(val, min_val)

RECURSIVE argmin_scan(_, _, _, _, _, _)
argmin_scan(a, i, n_cols, blockDim, j, best) ==
    IF j >= n_cols THEN best
    ELSE argmin_scan(a, i, n_cols, blockDim, j + blockDim,
                     IF scan_improves(best.val, a[j + n_cols * i])
                     THEN [val |-> a[j + n_cols * i], idx |-> j] ELSE best)

argmin_combine_mutant_last(x, y) ==
    IF RatLT(x.val, y.val) THEN x
    ELSE IF RatLT(y.val, x.val) THEN y
    ELSE IF x.idx > y.idx THEN x ELSE y

argmin_combine(x, y) ==
    IF RatLT(x.val, y.val) THEN x
    ELSE IF RatLT(y.val, x.val) THEN y
    ELSE IF x.idx > y.idx THEN y ELSE x

RECURSIVE argmin_reduce(_, _)
argmin_reduce(shm, offset) ==
    IF offset = 0 THEN shm
    ELSE argmin_reduce([t \in 0..(offset - 1) |-> argmin_combine(shm[t], shm[t + offset])],
                       offset \div 2)

argmin_along_rows_kernel(i, n_cols, a, blockDim) ==
    LET shm == [t \in 0..(blockDim - 1) |->
                   argmin_scan(a, i, n_cols, blockDim, t,
                               [val |-> upper_bound, idx |-> n_cols])]
    IN  argmin_reduce(shm, blockDim \div 2)[0].idx

RECURSIVE argmin_block_dim(_, _)
argmin_block_dim(block_dim, n_cols) ==
    IF block_dim > n_cols THEN argmin_block_dim(block_dim \div 2, n_cols) ELSE block_dim

argmin_along_rows(n_rows_, n_cols, a) ==
    LET block_dim == Max(argmin_block_dim(1024, n_cols), 128)
    IN  [i \in 0..(n_rows_ - 1) |-> argmin_along_rows_kernel(i, n_cols, a, block_dim)]

(***************************************************************************)
(* Collaborators of predict_float_core.                                    *)
(***************************************************************************)
RECURSIVE Dot(_, _, _, _, _)
Dot(x, xoff, y, yoff, n) ==
    IF n = 0 THEN RatZero
    ELSE RatAdd(Dot(x, xoff, y, yoff, n - 1),
                RatMul(x[xoff + n - 1], y[yoff + n - 1]))

\* raft::linalg::rowNorm(..., L2Norm, squared): the squared L2 norm of each row.
rowNorm(data, D, N) == [i \in 0..(N - 1) |-> Dot(data, D * i, data, D * i, D)]

\* linalg::gemm(trans_a, !trans_b, n_clusters, n_rows, dim, alpha = -1, centers, dim,
\* dataset, dim, beta = 0, distances, n_clusters): distances[k + n_clusters * i] is
\* alpha times the dot product of center k and row i.
gemm(n_clusters_, n_rows_, dim_, alpha, centers_, data) ==
    [idx \in 0..(n_rows_ * n_clusters_ - 1) |->
        RatMul(alpha, Dot(centers_, dim_ * (idx % n_clusters_),
                          data, dim_ * (idx \div n_clusters_), dim_))]

\* raft::distance::fusedL2NNMinReduce over rows pre-filled with (0, max): the key of
\* the nearest center by the expanded L2 distance |x|^2 + |c|^2 - 2 x.c, the lowest
\* key among equals.  The square root of L2SqrtExpanded keeps the order.
RECURSIVE fusedL2NN_row(_, _, _, _, _, _, _, _)
fusedL2NN_row(data, centers_, xn, cn, i, dim_, k, best) ==
    IF k < 0 THEN best
    ELSE LET d == RatAdd(RatAdd(xn[i], cn[k]),
                         RatMul(RatInt(-2), Dot(data, dim_ * i, centers_, dim_ * k, dim_)))
         IN  fusedL2NN_row(data, centers_, xn, cn, i, dim_, k - 1,
                           IF RatLE(d, best.val) /\ RatLT(d, upper_bound)
                           THEN [val |-> d, idx |-> k] ELSE best)

fusedL2NNMinReduce(data, centers_, xn, cn, n_rows_, n_clusters_, dim_) ==
    [i \in 0..(n_rows_ - 1) |->
        fusedL2NN_row(data, centers_, xn, cn, i, dim_, n_clusters_ - 1,
                      [val |-> upper_bound, idx |-> 0]).idx]

(***************************************************************************)
(* kmeans::predict_float_core over one minibatch of floats.  The result is *)
(* the labels of the minibatch, or the failure of RAFT_FAIL.               *)
(***************************************************************************)
predict_float_core(centers_, n_clusters_, dim_, data, data_norm, n_rows_, metric_) ==
    IF IsL2(metric_)
    THEN [ok |-> TRUE,
          labels |-> fusedL2NNMinReduce(data, centers_, data_norm,
                                        rowNorm(centers_, dim_, n_clusters_),
                                        n_rows_, n_clusters_, dim_)]
    ELSE IF metric_ = "InnerProduct"
    THEN [ok |-> TRUE,
          labels |-> argmin_along_rows(n_rows_, n_clusters_,
                                       gemm(n_clusters_, n_rows_, dim_, RatInt(-1),
                                            centers_, data))]
    ELSE [ok |-> FALSE, labels |-> << >>]

(***************************************************************************)
(* kmeans::calc_minibatch_size.                                            *)
(***************************************************************************)
SizeofFloat == 4

SizeofInt == 4

MinibatchBudget == 1073741824

calc_minibatch_size(n_clusters_, n_rows_, dim_, metric_, is_float) ==
    LET nc == Max(1, n_clusters_)
        mem_metric == IF ~IsL2(metric_) THEN SizeofFloat * nc ELSE SizeofInt
        mem_per_row == mem_metric + (IF ~is_float THEN SizeofFloat * dim_ ELSE 0)
        minibatch_size == 64 * ceildiv(MinibatchBudget \div mem_per_row, 64)
    IN  Min(minibatch_size, n_rows_)

(***************************************************************************)
(* kmeans::compute_norm and one turn of the minibatch loop of predict: the *)
(* minibatch at offset is converted to float, its norms are computed       *)
(* unless given, and predict_float_core writes labels + offset.            *)
(***************************************************************************)
unaryOp_mapping(T, data) == [idx \in DOMAIN data |-> mapping(T, data[idx])]

compute_norm(T, data, dim_, n_rows_) ==
    rowNorm(IF T = "float" THEN data ELSE unaryOp_mapping(T, data), dim_, n_rows_)

predict_minibatch(centers_, n_clusters_, dim_, T, dataset_, dataset_norm_, n_rows_, labels_, metric_, offset, max_minibatch_size) ==
    LET minibatch_size == Min(max_minibatch_size, n_rows_ - offset)
        cur_dataset == IF T = "float" THEN Slice(dataset_, offset * dim_, minibatch_size * dim_)
                       ELSE unaryOp_mapping(T, Slice(dataset_, offset * dim_, minibatch_size * dim_))
        need_compute_norm == dataset_norm_.null /\ IsL2(metric_)
        norm == IF need_compute_norm
                THEN compute_norm("float", cur_dataset, dim_, minibatch_size)
                ELSE IF ~dataset_norm_.null
                     THEN Slice(dataset_norm_.data, offset, minibatch_size)
                     ELSE << >>
        r == predict_float_core(centers_, n_clusters_, dim_, cur_dataset, norm,
                                minibatch_size, metric_)
    IN  IF r.ok
        THEN [ok |-> TRUE,
              labels |-> [i \in DOMAIN labels_ |->
                             IF i >= offset /\ i < offset + minibatch_size
                             THEN r.labels[i - offset] ELSE labels_[i]]]
        ELSE [ok |-> FALSE, labels |-> labels_]

(***************************************************************************)
(* State.  One call is in progress at a time; pc is its position.          *)
(***************************************************************************)
VARIABLES
    pc,             \* position of the call in progress
    T,              \* element type of the dataset
    metric,         \* raft::distance::DistanceType
    n_clusters,
    dim,
    n_rows,
    dataset,        \* [n_rows, dim], elements of type T
    dataset_norm,   \* the precomputed norms handed to the call, or the null pointer
    labels,         \* [n_rows]
    centers,        \* [n_clusters, dim]
    cluster_sizes,  \* [n_clusters]
    err,            \* the failure raised by the call, "none" if none
    hist,           \* the arguments as they were when the call started
    loc,            \* the local variables of the call in progress
    residency,      \* the memory type of each pointer argument
    threshold,      \* the threshold handed to adjust_centers
    static_i,       \* adjust_centers' static i
    i_primes,       \* adjust_centers' static i_primes
    dst,            \* the output matrix of copy_selected
    em,             \* the local variables of balancing_em_iters while it runs
    hier            \* the local variables of build_hierarchical while it runs

vars == <<pc, T, metric, n_clusters, dim, n_rows, dataset, dataset_norm, labels, centers,
          cluster_sizes, err, hist, loc, residency, threshold, static_i, i_primes, dst,
          em, hier>>

argVars == <<T, metric, n_clusters, dim, n_rows, dataset, dataset_norm, residency, threshold>>

globals == <<static_i, i_primes, dst, em, hier>>

\* No balancing_em_iters is running.
NoEM == [call |-> "none", requested |-> 0, n_iters |-> 0, iter |-> 0,
         balancing_counter |-> 0, balancing_pullback |-> 0, n_adjusted |-> 0]

\* No build_hierarchical is running.
NoHier == [phase |-> "none"]

AllOn(type) == [centers |-> type, dataset |-> type, labels |-> type,
                cluster_sizes |-> type, dst |-> type]

\* The state of what a call of calc_centers_and_sizes or predict does not touch.
DeviceDefaults ==
    /\ residency = AllOn("cudaMemoryTypeDevice")
    /\ threshold = Rat(1, 4)
    /\ static_i = 0
    /\ i_primes = 0
    /\ dst = << >>
    /\ em = NoEM
    /\ hier = NoHier

nullptr == [null |-> TRUE, data |-> << >>]

Pointer(a) == [null |-> FALSE, data |-> a]

NoLocals == [offset |-> 0, max_minibatch_size |-> 0]

InRange(labels_, n_rows_, n_clusters_) ==
    \A r \in 0..(n_rows_ - 1) : labels_[r] \in 0..(n_clusters_ - 1)

(***************************************************************************)
(* Calls of calc_centers_and_sizes: either over the whole dataset with     *)
(* reset_counters = true, or over a shard of its first rows (hist.shard of *)
(* them) with reset_counters = true and then over the remaining rows with  *)
(* reset_counters = false.  centers and cluster_sizes start with whatever  *)
(* the caller's buffers hold.                                              *)
(***************************************************************************)
StaleBuffer(kind, n_clusters_, dim_) ==
    IF kind = "zero"
    THEN [centers |-> Array(n_clusters_ * dim_, LAMBDA k : RatZero),
          cluster_sizes |-> Array(n_clusters_, LAMBDA k : 0)]
    ELSE IF kind = "garbage"
    THEN [centers |-> Array(n_clusters_ * dim_, LAMBDA k : Rat(k + 3, 2)),
          cluster_sizes |-> Array(n_clusters_, LAMBDA k : k + 2)]
    ELSE [centers |-> Array(n_clusters_ * dim_, LAMBDA k : Rat(k + 3, 2)),
          cluster_sizes |-> Array(n_clusters_, LAMBDA k : k)]

CalcArgs(types, kinds) ==
    /\ pc = "calc_start"
    /\ T \in types
    /\ metric = "L2Expanded"
    /\ n_clusters \in 1..MaxClusters
    /\ dim \in Dims
    /\ n_rows \in 0..MaxRows
    /\ dataset \in Datasets(ElemRows(T, {r \in RawRows(T, dim) : r[1] /= 0}), n_rows, dim)
    /\ labels \in [0..(n_rows - 1) -> 0..(n_clusters - 1)]
    /\ \E kind \in kinds :
          /\ centers = StaleBuffer(kind, n_clusters, dim).centers
          /\ cluster_sizes = StaleBuffer(kind, n_clusters, dim).cluster_sizes
    /\ dataset_norm = nullptr
    /\ err = "none"
    /\ hist = [shard |-> 0, centers |-> centers, cluster_sizes |-> cluster_sizes]
    /\ loc = NoLocals
    /\ DeviceDefaults

InitCalc == CalcArgs(ElemTypes, {"zero", "garbage"})

InitShards == CalcArgs({"float", "int8_t"}, {"garbage", "accumulated"})

CalcFull ==
    /\ pc = "calc_start"
    /\ LET r == calc_centers_and_sizes(centers, cluster_sizes, n_clusters, dim, T,
                                       dataset, n_rows, labels, TRUE)
       IN  /\ centers' = r.centers
           /\ cluster_sizes' = r.cluster_sizes
    /\ pc' = "calc_full_done"
    /\ UNCHANGED <<argVars, globals, labels, err, hist, loc>>

CalcShardA ==
    /\ pc = "calc_start"
    /\ \E shard \in 0..n_rows :
          LET r == calc_centers_and_sizes(centers, cluster_sizes, n_clusters, dim, T,
                                          Slice(dataset, 0, shard * dim), shard,
                                          Slice(labels, 0, shard), TRUE)
          IN  /\ centers' = r.centers
              /\ cluster_sizes' = r.cluster_sizes
              /\ hist' = [hist EXCEPT !.shard = shard]
    /\ pc' = "calc_a_done"
    /\ UNCHANGED <<argVars, globals, labels, err, loc>>

CalcShardB ==
    /\ pc = "calc_a_done"
    /\ LET r == calc_centers_and_sizes(centers, cluster_sizes, n_clusters, dim, T,
                                       Slice(dataset, hist.shard * dim,
                                             (n_rows - hist.shard) * dim),
                                       n_rows - hist.shard,
                                       Slice(labels, hist.shard, n_rows - hist.shard),
                                       FALSE)
       IN  /\ centers' = r.centers
           /\ cluster_sizes' = r.cluster_sizes
    /\ pc' = "calc_ab_done"
    /\ UNCHANGED <<argVars, globals, labels, err, hist, loc>>

\* One call with reset_counters = false on top of what the buffers hold.
CalcAccumulate ==
    /\ pc = "calc_start"
    /\ LET r == calc_centers_and_sizes(centers, cluster_sizes, n_clusters, dim, T,
                                       dataset, n_rows, labels, FALSE)
       IN  /\ centers' = r.centers
           /\ cluster_sizes' = r.cluster_sizes
    /\ pc' = "calc_acc_done"
    /\ UNCHANGED <<argVars, globals, labels, err, hist, loc>>

NextCalc == CalcFull

SpecCalc == InitCalc /\ [][NextCalc]_vars

NextShards == CalcShardA \/ CalcShardB \/ CalcAccumulate

SpecShards == InitShards /\ [][NextShards]_vars

(***************************************************************************)
(* Calls of kmeans::predict.  The labels buffer starts with a value no     *)
(* cluster has; the centers are any rows of CenterRows.                    *)
(***************************************************************************)
CenterRows(d) ==
    IF d = 1 THEN {<<RatInt(-1)>>, <<RatInt(1)>>}
    ELSE {<<RatInt(0), RatInt(2)>>, <<RatInt(2), RatInt(0)>>}

StaleLabel == MaxClusters + 1

InitPredict ==
    /\ pc = "predict_start"
    /\ T \in ElemTypes
    /\ metric \in Metrics
    /\ n_clusters \in 0..MaxClusters
    /\ dim \in Dims
    /\ n_rows \in 0..MaxRows
    /\ dataset \in Datasets(Rows(T, dim), n_rows, dim)
    /\ dataset_norm \in {nullptr} \cup
                        (IF metric = "L2Expanded"
                         THEN {Pointer(compute_norm(T, dataset, dim, n_rows))} ELSE {})
    /\ labels = [r \in 0..(n_rows - 1) |-> StaleLabel]
    /\ centers \in Datasets(CenterRows(dim), n_clusters, dim)
    /\ cluster_sizes = [k \in 0..(n_clusters - 1) |-> 0]
    /\ err = "none"
    /\ hist = [shard |-> 0, centers |-> centers, cluster_sizes |-> cluster_sizes]
    /\ loc = NoLocals
    /\ DeviceDefaults

\* predict up to its loop: the minibatch size is chosen and offset starts at 0.
PredictEnter ==
    /\ pc = "predict_start"
    /\ loc' = [offset |-> 0,
               max_minibatch_size |->
                   calc_minibatch_size(n_clusters, n_rows, dim, metric, T = "float")]
    /\ pc' = "predict_loop"
    /\ UNCHANGED <<argVars, globals, labels, centers, cluster_sizes, err, hist>>

\* One turn of the loop, taken while offset < n_rows.
PredictMinibatch ==
    /\ pc = "predict_loop"
    /\ loc.offset < n_rows
    /\ LET r == predict_minibatch(centers, n_clusters, dim, T, dataset, dataset_norm,
                                  n_rows, labels, metric, loc.offset,
                                  loc.max_minibatch_size)
       IN  IF r.ok
           THEN /\ labels' = r.labels
                /\ loc' = [loc EXCEPT !.offset = loc.offset + loc.max_minibatch_size]
                /\ UNCHANGED <<pc, err>>
           ELSE /\ pc' = "predict_failed"
                /\ err' = "metric_not_supported"
                /\ UNCHANGED <<labels, loc>>
    /\ UNCHANGED <<argVars, globals, centers, cluster_sizes, hist>>

\* The loop ends when offset reaches n_rows, and predict returns.
PredictReturn ==
    /\ pc = "predict_loop"
    /\ ~(loc.offset < n_rows)
    /\ pc' = "predict_done"
    /\ UNCHANGED <<argVars, globals, labels, centers, cluster_sizes, err, hist, loc>>

NextPredict == PredictEnter \/ PredictMinibatch \/ PredictReturn

SpecPredict == InitPredict /\ [][NextPredict]_vars


(***************************************************************************)
(* utils::check_pointer_residency over the memory types of its pointer     *)
(* arguments, as cudaPointerGetAttributes reports them.                    *)
(***************************************************************************)
RECURSIVE pointer_residency_count(_)
pointer_residency_count(ptrs) ==
    IF ptrs = << >> THEN [on_device |-> 0, on_host |-> 0]
    ELSE LET c == pointer_residency_count(Tail(ptrs))
             type == Head(ptrs)
         IN  CASE type \in {"cudaMemoryTypeUnregistered", "cudaMemoryTypeHost"} ->
                    [on_device |-> c.on_device, on_host |-> c.on_host + 1]
               [] type = "cudaMemoryTypeDevice" ->
                    [on_device |-> c.on_device + 1, on_host |-> c.on_host]
               [] type = "cudaMemoryTypeManaged" ->
                    [on_device |-> c.on_device + 1, on_host |-> c.on_host + 1]
               [] OTHER -> c

check_pointer_residency_mutant_managed(ptrs) ==
    LET c == pointer_residency_count(ptrs)
        n_args == Len(ptrs)
    IN  IF c.on_device = n_args THEN "device_only"
        ELSE IF c.on_host = n_args THEN "host_only"
        ELSE "mixed"

check_pointer_residency_mutant_any(ptrs) ==
    LET c == pointer_residency_count(ptrs)
        n_args == Len(ptrs)
    IN  IF c.on_device = n_args /\ c.on_host = n_args THEN "host_and_device"
        ELSE IF c.on_device > 0 THEN "device_only"
        ELSE IF c.on_host = n_args THEN "host_only"
        ELSE "mixed"

check_pointer_residency(ptrs) ==
    LET c == pointer_residency_count(ptrs)
        n_args == Len(ptrs)
    IN  IF c.on_device = n_args /\ c.on_host = n_args THEN "host_and_device"
        ELSE IF c.on_device = n_args THEN "device_only"
        ELSE IF c.on_host = n_args THEN "host_only"
        ELSE "mixed"

\* The residencies a call is made with: all pointers of one type, or the outputs on
\* one side and the inputs on the other.
Residencies ==
    {AllOn("cudaMemoryTypeHost"), AllOn("cudaMemoryTypeDevice"),
     AllOn("cudaMemoryTypeManaged"),
     [AllOn("cudaMemoryTypeHost") EXCEPT !.centers = "cudaMemoryTypeDevice",
                                         !.dst = "cudaMemoryTypeDevice"],
     [AllOn("cudaMemoryTypeDevice") EXCEPT !.centers = "cudaMemoryTypeHost",
                                           !.dst = "cudaMemoryTypeHost"]}

(***************************************************************************)
(* kmeans::adjust_centers.                                                 *)
(***************************************************************************)
kAdjustCentersWeight == 7

kPrimes ==
    <<29, 71, 113, 173, 229, 281, 349, 409, 463, 541,
      601, 659, 733, 809, 863, 941, 1013, 1069, 1151, 1223,
      1291, 1373, 1451, 1511, 1583, 1657, 1733, 1811, 1889, 1987,
      2053, 2129, 2213, 2287, 2357, 2423, 2531, 2617, 2687, 2741>>

kBlockDimY == 4

starved_limit_mutant_unscaled(average, threshold_) == average

\* static_cast<uint32_t>(average * threshold)
starved_limit(average, threshold_) == LET p == RatMul(RatInt(average), threshold_)
                                      IN  p[1] \div p[2]

skip_big_mutant_never(csize, average, threshold_) == FALSE

\* The test both paths skip a big cluster by.
skip_big(csize, average, threshold_) == csize > starved_limit(average, threshold_)

probe_again_mutant_half(cluster_sizes_, labels_, i, average) ==
    2 * cluster_sizes_[labels_[i]] < average

probe_again_mutant_once(cluster_sizes_, labels_, i, average) == FALSE

\* The condition both probe loops repeat on.
probe_again(cluster_sizes_, labels_, i, average) == cluster_sizes_[labels_[i]] < average

adjusted_center_mutant_donor(centers_, dim_, T_, dataset_, labels_, l, i, wc) ==
    LET li == labels_[i]
    IN  [idx \in DOMAIN centers_ |->
            IF idx \div dim_ = li
            THEN LET j == idx % dim_
                 IN  RatDiv(RatAdd(RatMul(RatInt(wc), centers_[j + dim_ * li]),
                                   mapping(T_, dataset_[j + dim_ * i])),
                            RatInt(wc + 1))
            ELSE centers_[idx]]

\* The new center row of cluster l: the weighted average of the center row of the
\* donor's cluster li = labels[i], weight wc, and the donor row i, weight wd = 1.
adjusted_center(centers_, dim_, T_, dataset_, labels_, l, i, wc) ==
    LET li == labels_[i]
    IN  [idx \in DOMAIN centers_ |->
            IF idx \div dim_ = l
            THEN LET j == idx % dim_
                 IN  RatDiv(RatAdd(RatMul(RatInt(wc), centers_[j + dim_ * li]),
                                   mapping(T_, dataset_[j + dim_ * i])),
                            RatInt(wc + 1))
            ELSE centers_[idx]]

host_wc(csize) == Min(csize, kAdjustCentersWeight)

kernel_wc(csize) == IF csize > kAdjustCentersWeight THEN kAdjustCentersWeight ELSE csize

(***************************************************************************)
(* Calls of adjust_centers, one after another with the same arguments: the *)
(* statics i and i_primes live on from call to call.  The sizes are the    *)
(* label counts, as calc_centers_and_sizes leaves them.  loc.donor[l] is   *)
(* the row the center of cluster l was last adjusted with, -1 if none, and  *)
(* loc.probes lists the rows probed by the call so far, in order.          *)
(***************************************************************************)
\* The longest probe sequence of one call explored.
MaxProbes == 64

MaxCalls == 2

MaxAdjustRows == 4

MaxAdjustClusters == 3

Thresholds == {Rat(1, 4), Rat(1, 2)}

RampDataset(T_, n, d) ==
    [idx \in 0..(n * d - 1) |->
        IF T_ = "float" THEN RatInt((idx \div d) + 1 + (idx % d))
        ELSE (idx \div d) + 1 + (idx % d)]

AdjustLocals(calls) ==
    [average |-> 0, ofst |-> 0, adjusted |-> FALSE, l |-> 0, count |-> 0,
     warps |-> << >>, donor |-> [l \in 0..(n_clusters - 1) |-> -1], calls |-> calls,
     probes |-> << >>]

InitAdjust ==
    /\ pc = "adjust_start"
    /\ T \in {"float", "int8_t"}
    /\ metric = "L2Expanded"
    /\ n_clusters \in 0..MaxAdjustClusters
    /\ dim \in Dims
    /\ n_rows \in 0..MaxAdjustRows
    /\ dataset = RampDataset(T, n_rows, dim)
    /\ dataset_norm = nullptr
    /\ labels \in (IF n_clusters = 0 THEN {[r \in 0..(n_rows - 1) |-> StaleLabel]}
                   ELSE [0..(n_rows - 1) -> 0..(n_clusters - 1)])
    /\ centers = StaleBuffer("garbage", n_clusters, dim).centers
    /\ cluster_sizes = countLabels(labels, n_rows, n_clusters)
    /\ err = "none"
    /\ hist = [shard |-> 0, centers |-> centers, cluster_sizes |-> cluster_sizes]
    /\ loc = AdjustLocals(1)
    /\ residency \in Residencies
    /\ threshold \in Thresholds
    /\ static_i = 0
    /\ i_primes = 0
    /\ dst = << >>
    /\ em = NoEM
    /\ hier = NoHier

AdjustEnter_mutant_reset ==
    /\ pc = "adjust_start"
    /\ IF n_clusters = 0
       THEN pc' = "adjust_done" /\ UNCHANGED loc
       ELSE /\ pc' = "adjust_primes"
            /\ loc' = [loc EXCEPT !.average = n_rows \div n_clusters]
    /\ static_i' = 0
    /\ i_primes' = 0
    /\ UNCHANGED <<argVars, dst, em, hier, labels, centers, cluster_sizes, err, hist>>

\* The early return for n_clusters = 0, else the average.  The statics i and i_primes
\* were initialised when the first call came by their declarations, and are left as
\* they are by every later one.
AdjustEnter ==
    /\ pc = "adjust_start"
    /\ IF n_clusters = 0
       THEN pc' = "adjust_done" /\ UNCHANGED loc
       ELSE /\ pc' = "adjust_primes"
            /\ loc' = [loc EXCEPT !.average = n_rows \div n_clusters]
    /\ UNCHANGED <<argVars, globals, labels, centers, cluster_sizes, err, hist>>

stride_divides_mutant_never(n_rows_, ofst) == FALSE

\* n_rows % ofst == 0
stride_divides(n_rows_, ofst) == n_rows_ % ofst = 0

\* One turn of the do-while that picks the stride.
AdjustPrime ==
    /\ pc = "adjust_primes"
    /\ i_primes' = (i_primes + 1) % Len(kPrimes)
    /\ loc' = [loc EXCEPT !.ofst = kPrimes[i_primes' + 1]]
    /\ pc' = IF stride_divides(n_rows, loc'.ofst) THEN "adjust_primes" ELSE "adjust_switch"
    /\ UNCHANGED <<argVars, static_i, dst, em, hier, labels, centers, cluster_sizes, err,
                   hist>>

\* The switch on the residency.  On the device side the kernel is launched with
\* update_count = 0: a warp whose l is no cluster, or whose cluster is big, returns
\* at once (it reads only what no warp writes), the others start probing.
AdjustSwitch ==
    /\ pc = "adjust_switch"
    /\ LET res == check_pointer_residency(<<residency.centers, residency.dataset,
                                            residency.labels, residency.cluster_sizes>>)
       IN  CASE res \in {"host_and_device", "device_only"} ->
                  /\ pc' = "kernel"
                  /\ loc' = [loc EXCEPT
                        !.count = 0,
                        !.warps = [l \in 0..(kBlockDimY * ceildiv(n_clusters, kBlockDimY) - 1) |->
                                     [at |-> IF l >= n_clusters THEN "exit"
                                             ELSE IF skip_big(cluster_sizes[l], loc.average,
                                                              threshold)
                                             THEN "exit" ELSE "probe",
                                      i |-> 0]]]
                  /\ UNCHANGED err
             [] res = "host_only" ->
                  /\ pc' = "host_loop"
                  /\ loc' = [loc EXCEPT !.l = 0]
                  /\ UNCHANGED err
             [] OTHER ->
                  /\ pc' = "adjust_failed"
                  /\ err' = "pointer_residency"
                  /\ UNCHANGED loc
    /\ UNCHANGED <<argVars, globals, labels, centers, cluster_sizes, hist>>

KernelProbe_mutant_same_row(l) ==
    /\ pc = "kernel"
    /\ loc.warps[l].at = "probe"
    /\ Len(loc.probes) < MaxProbes
    /\ LET old == loc.count
           i == loc.ofst % n_rows
       IN  loc' = [loc EXCEPT
                !.count = old + 1,
                !.probes = Append(loc.probes, i),
                !.warps[l] = [at |-> IF probe_again(cluster_sizes, labels, i, loc.average)
                                     THEN "probe" ELSE "update",
                              i |-> i]]
    /\ UNCHANGED <<argVars, globals, pc, labels, centers, cluster_sizes, err, hist>>

\* Lane 0 of warp l takes the next value of the counter and probes a row.
KernelProbe(l) ==
    /\ pc = "kernel"
    /\ loc.warps[l].at = "probe"
    /\ Len(loc.probes) < MaxProbes
    /\ LET old == loc.count
           i == (loc.ofst * (old + 1)) % n_rows
       IN  loc' = [loc EXCEPT
                !.count = old + 1,
                !.probes = Append(loc.probes, i),
                !.warps[l] = [at |-> IF probe_again(cluster_sizes, labels, i, loc.average)
                                     THEN "probe" ELSE "update",
                              i |-> i]]
    /\ UNCHANGED <<argVars, globals, pc, labels, centers, cluster_sizes, err, hist>>

\* The lanes of warp l write the center row of cluster l.
KernelUpdate(l) ==
    /\ pc = "kernel"
    /\ loc.warps[l].at = "update"
    /\ centers' = adjusted_center(centers, dim, T, dataset, labels, l, loc.warps[l].i,
                                  kernel_wc(cluster_sizes[l]))
    /\ loc' = [loc EXCEPT !.warps[l].at = "exit", !.donor[l] = loc.warps[l].i]
    /\ UNCHANGED <<argVars, globals, pc, labels, cluster_sizes, err, hist>>

\* update_count.value(stream) waits for the kernel; adjust_centers returns.
KernelReturn ==
    /\ pc = "kernel"
    /\ \A l \in DOMAIN loc.warps : loc.warps[l].at = "exit"
    /\ loc' = [loc EXCEPT !.adjusted = loc.count > 0]
    /\ pc' = "adjust_done"
    /\ UNCHANGED <<argVars, globals, labels, centers, cluster_sizes, err, hist>>

\* The head of the host loop over l: a big cluster is skipped, a starved one goes to
\* the probe loop, and past the last cluster adjust_centers returns.
HostLoop ==
    /\ pc = "host_loop"
    /\ IF loc.l < n_clusters
       THEN IF skip_big(cluster_sizes[loc.l], loc.average, threshold)
            THEN pc' = "host_loop" /\ loc' = [loc EXCEPT !.l = loc.l + 1]
            ELSE pc' = "host_probe" /\ UNCHANGED loc
       ELSE pc' = "adjust_done" /\ UNCHANGED loc
    /\ UNCHANGED <<argVars, globals, labels, centers, cluster_sizes, err, hist>>

\* One turn of the host probe loop.
HostProbe ==
    /\ pc = "host_probe"
    /\ Len(loc.probes) < MaxProbes
    /\ static_i' = (static_i + loc.ofst) % n_rows
    /\ loc' = [loc EXCEPT !.probes = Append(loc.probes, static_i')]
    /\ pc' = IF probe_again(cluster_sizes, labels, static_i', loc.average)
             THEN "host_probe" ELSE "host_update"
    /\ UNCHANGED <<argVars, i_primes, dst, em, hier, labels, centers, cluster_sizes, err,
                   hist>>

\* The host writes the center row of cluster l and goes on to the next cluster.
HostUpdate ==
    /\ pc = "host_update"
    /\ centers' = adjusted_center(centers, dim, T, dataset, labels, loc.l, static_i,
                                  host_wc(cluster_sizes[loc.l]))
    /\ loc' = [loc EXCEPT !.adjusted = TRUE, !.donor[loc.l] = static_i, !.l = loc.l + 1]
    /\ pc' = "host_loop"
    /\ UNCHANGED <<argVars, globals, labels, cluster_sizes, err, hist>>

\* The next call, with the centers as the last one left them.
AdjustAgain ==
    /\ pc = "adjust_done"
    /\ loc.calls < MaxCalls
    /\ pc' = "adjust_start"
    /\ loc' = AdjustLocals(loc.calls + 1)
    /\ hist' = [hist EXCEPT !.centers = centers]
    /\ UNCHANGED <<argVars, globals, labels, centers, cluster_sizes, err>>

NextAdjustCenters ==
    \/ AdjustEnter
    \/ AdjustPrime
    \/ AdjustSwitch
    \/ \E l \in 0..(kBlockDimY * ceildiv(MaxAdjustClusters, kBlockDimY) - 1) :
          /\ pc = "kernel"
          /\ l \in DOMAIN loc.warps
          /\ (KernelProbe(l) \/ KernelUpdate(l))
    \/ KernelReturn
    \/ HostLoop
    \/ HostProbe
    \/ HostUpdate
    \/ AdjustAgain

(***************************************************************************)
(* The probe sequence on its own: adjust_centers called with sizes that    *)
(* make every probe fail (the one cluster is starved and smaller than the  *)
(* average, whatever row is probed), so that the probe loop goes on and    *)
(* loc.probes shows the sequence.  The statics hold what earlier calls     *)
(* left: any position in the table, and an i that may exceed n_rows.       *)
(***************************************************************************)
MaxStrideRows == 30

InitStride ==
    /\ pc = "adjust_start"
    /\ T = "float"
    /\ metric = "L2Expanded"
    /\ n_clusters = 1
    /\ dim = 1
    /\ n_rows \in 1..MaxStrideRows
    /\ dataset = RampDataset(T, n_rows, dim)
    /\ dataset_norm = nullptr
    /\ labels = [r \in 0..(n_rows - 1) |-> 0]
    /\ centers = StaleBuffer("garbage", n_clusters, dim).centers
    /\ cluster_sizes = [k \in 0..(n_clusters - 1) |-> 0]
    /\ err = "none"
    /\ hist = [shard |-> 0, centers |-> centers, cluster_sizes |-> cluster_sizes]
    /\ loc = AdjustLocals(1)
    /\ residency \in {AllOn("cudaMemoryTypeHost"), AllOn("cudaMemoryTypeDevice")}
    /\ threshold = Rat(1, 4)
    /\ static_i \in {0, n_rows + 3}
    /\ i_primes \in 0..(Len(kPrimes) - 1)
    /\ dst = << >>
    /\ em = NoEM
    /\ hier = NoHier

NextStride ==
    \/ AdjustEnter
    \/ AdjustPrime
    \/ AdjustSwitch
    \/ KernelProbe(0)
    \/ HostLoop
    \/ HostProbe

SpecStride == InitStride /\ [][NextStride]_vars

(***************************************************************************)
(* adjust_centers under fair scheduling, on the inputs build_clusters      *)
(* hands it: at least one row and one cluster, labels of clusters, sizes   *)
(* that are the label counts.  One row count is the first prime of the     *)
(* table, and the index into the table may stand at its last entry, so     *)
(* that the stride loop has to pass a prime over.  The host thread and the *)
(* warps of the kernel are scheduled fairly: whoever can take a step will. *)
(***************************************************************************)
ProbingRowCounts == {1, 2, 3, kPrimes[1]}

ProbingClusterCounts == {1, 2, 3}

\* The labels of the probing runs: every row in cluster 0, the rows dealt out in turn,
\* or all in cluster 0 but the rows that the first strides of the table land on, which
\* are in the last cluster.
ProbingLabels(n_rows_, n_clusters_) ==
    {[r \in 0..(n_rows_ - 1) |-> 0],
     [r \in 0..(n_rows_ - 1) |-> r % n_clusters_],
     [r \in 0..(n_rows_ - 1) |-> IF r % (kPrimes[2] % kPrimes[1]) = 0 THEN n_clusters_ - 1
                                 ELSE 0]}

InitProbing ==
    /\ pc = "adjust_start"
    /\ T = "float"
    /\ metric = "L2Expanded"
    /\ n_rows \in ProbingRowCounts
    /\ n_clusters \in ProbingClusterCounts
    /\ labels \in ProbingLabels(n_rows, n_clusters)
    /\ dim = 1
    /\ dataset = RampDataset(T, n_rows, dim)
    /\ dataset_norm = nullptr
    /\ centers = StaleBuffer("garbage", n_clusters, dim).centers
    /\ cluster_sizes = countLabels(labels, n_rows, n_clusters)
    /\ err = "none"
    /\ hist = [shard |-> 0, centers |-> centers, cluster_sizes |-> cluster_sizes]
    /\ loc = AdjustLocals(1)
    /\ residency \in {AllOn("cudaMemoryTypeHost"), AllOn("cudaMemoryTypeDevice"),
                      [AllOn("cudaMemoryTypeHost") EXCEPT !.centers = "cudaMemoryTypeDevice"]}
    /\ threshold \in Thresholds
    /\ static_i = 0
    /\ i_primes \in {0, Len(kPrimes) - 1}
    /\ dst = << >>
    /\ em = NoEM
    /\ hier = NoHier

SpecProbing == InitProbing /\ [][NextAdjustCenters]_vars /\ WF_vars(NextAdjustCenters)

(***************************************************************************)
(* Calls of utils::copy_selected: dataset is src [n_rows, dim], labels is  *)
(* row_ids, loc.n_rows rows are copied into dst, and ld_src = ld_dst =     *)
(* n_cols = dim.  dst starts with a value the copy cannot produce.         *)
(***************************************************************************)
StaleElement == Rat(-7, 3)

InitCopy ==
    /\ pc = "copy_start"
    /\ T \in {"float", "int8_t"}
    /\ metric = "L2Expanded"
    /\ n_clusters = 0
    /\ dim \in Dims
    /\ n_rows \in 1..MaxRows
    /\ dataset = RampDataset(T, n_rows, dim)
    /\ dataset_norm = nullptr
    /\ \E n_sel \in 0..MaxRows :
          /\ labels \in [0..(n_sel - 1) -> 0..(n_rows - 1)]
          /\ loc = [n_rows |-> n_sel, n_cols |-> dim, ld_src |-> dim, ld_dst |-> dim]
          /\ dst = [idx \in 0..(n_sel * dim - 1) |-> StaleElement]
    /\ centers = << >>
    /\ cluster_sizes = << >>
    /\ err = "none"
    /\ hist = [shard |-> 0, centers |-> centers, cluster_sizes |-> cluster_sizes]
    /\ residency \in Residencies
    /\ threshold = Rat(1, 4)
    /\ static_i = 0
    /\ i_primes = 0
    /\ em = NoEM
    /\ hier = NoHier

\* dst[ld_dst * i_dst + j] = mapping(src[ld_src * row_ids[i_dst] + j]), by the kernel
\* (one thread per element) or by the host loops.
copy_selected_rows(n_rows_, n_cols, T_, src, row_ids, ld_src, dst_, ld_dst) ==
    [idx \in DOMAIN dst_ |->
        IF idx \div ld_dst < n_rows_ /\ idx % ld_dst < n_cols
        THEN mapping(T_, src[ld_src * row_ids[idx \div ld_dst] + (idx % ld_dst)])
        ELSE dst_[idx]]

CopySelected ==
    /\ pc = "copy_start"
    /\ LET res == check_pointer_residency(<<residency.dataset, residency.dst,
                                            residency.labels>>)
       IN  IF res \in {"host_and_device", "device_only", "host_only"}
           THEN /\ dst' = copy_selected_rows(loc.n_rows, loc.n_cols, T, dataset, labels,
                                             loc.ld_src, dst, loc.ld_dst)
                /\ pc' = "copy_done"
                /\ UNCHANGED err
           ELSE /\ pc' = "copy_failed"
                /\ err' = "pointer_residency"
                /\ UNCHANGED dst
    /\ UNCHANGED <<argVars, static_i, i_primes, em, hier, labels, centers, cluster_sizes,
                   hist, loc>>

InitAdjustSpec == InitAdjust \/ InitCopy

NextAdjust == NextAdjustCenters \/ CopySelected

SpecAdjust == InitAdjustSpec /\ [][NextAdjust]_vars

(***************************************************************************)
(* kmeans::arrange_fine_clusters.  Its uint32_t counters are naturals      *)
(* below 2^32 and wrap; mesocluster sizes and row counts stay small.       *)
(***************************************************************************)
U32Add(a, b) == BigWrap(BigAdd(a, b), 4)

U32Sub(a, b) == BigWrap(BigSub(BigAdd(a, BigPow2(32)), b), 4)

BigMin(a, b) == IF BigLT(b, a) THEN b ELSE a

BigMax(a, b) == IF BigLT(a, b) THEN b ELSE a

\* uint32_t((double)n_lists_rem * mesocluster_sizes[i] / n_rows_rem + .5)
proportional_share(n_lists_rem, size, n_rows_rem) ==
    BigWrap(BigDivSmall(BigAdd(BigMulSmall(n_lists_rem, 2 * size), BigFromInt(n_rows_rem)),
                        2 * n_rows_rem), 4)

fine_clusters_share_mutant_zero(n_lists_rem, n_nonempty_ms_rem, size, n_rows_rem) ==
    BigMin(proportional_share(n_lists_rem, size, n_rows_rem),
           U32Sub(n_lists_rem, BigFromInt(n_nonempty_ms_rem)))

\* fine_clusters_nums[i] of a non-empty mesocluster that is not the last one, with
\* n_nonempty_ms_rem already decremented.
fine_clusters_share(n_lists_rem, n_nonempty_ms_rem, size, n_rows_rem) ==
    BigMax(BigMin(proportional_share(n_lists_rem, size, n_rows_rem),
                  U32Sub(n_lists_rem, BigFromInt(n_nonempty_ms_rem))),
           BigFromInt(1))

MaxMesoclusters == 3

MaxTrainRows == 5

MaxFineClusters == 4

\* Arrays of n sizes that add up to total.
SizesSummingTo(n, total) ==
    {sz \in [0..(n - 1) -> 0..total] : SumTo(sz, n) = total}

InitArrange ==
    /\ pc = "arrange_start"
    /\ T = "float"
    /\ metric = "L2Expanded"
    /\ n_clusters \in 0..MaxFineClusters
    /\ dim = 1
    /\ n_rows \in 0..MaxTrainRows
    /\ dataset = << >>
    /\ dataset_norm = nullptr
    /\ labels = << >>
    /\ centers = << >>
    /\ \E n_mesoclusters \in 1..MaxMesoclusters :
          /\ cluster_sizes \in SizesSummingTo(n_mesoclusters, n_rows)
          /\ loc = [n_mesoclusters |-> n_mesoclusters, i |-> 0,
                    n_lists_rem |-> << >>, n_nonempty_ms_rem |-> 0, n_rows_rem |-> 0,
                    mesocluster_size_sum |-> 0, mesocluster_size_max |-> 0,
                    fine_clusters_nums_max |-> << >>,
                    fine_clusters_nums |-> [m \in 0..(n_mesoclusters - 1) |-> << >>],
                    fine_clusters_csum |-> [m \in 0..n_mesoclusters |-> << >>]]
    /\ err = "none"
    /\ hist = [shard |-> 0, centers |-> centers, cluster_sizes |-> cluster_sizes]
    /\ DeviceDefaults

\* Up to the main loop: the counters are set and the non-empty mesoclusters counted.
ArrangeEnter ==
    /\ pc = "arrange_start"
    /\ loc' = [loc EXCEPT
          !.n_lists_rem = BigFromInt(n_clusters),
          !.n_nonempty_ms_rem =
              Cardinality({m \in 0..(loc.n_mesoclusters - 1) : cluster_sizes[m] > 0}),
          !.n_rows_rem = n_rows,
          !.i = 0]
    /\ pc' = "arrange_loop"
    /\ UNCHANGED <<argVars, globals, labels, centers, cluster_sizes, err, hist>>

\* One turn of the main loop, for mesocluster i.
ArrangeStep ==
    /\ pc = "arrange_loop"
    /\ loc.i < loc.n_mesoclusters
    /\ LET m == loc.i
           msize == cluster_sizes[m]
           nonempty == IF m < loc.n_mesoclusters - 1 /\ msize /= 0
                       THEN loc.n_nonempty_ms_rem - 1 ELSE loc.n_nonempty_ms_rem
           num == IF m < loc.n_mesoclusters - 1
                  THEN IF msize = 0 THEN << >>
                       ELSE fine_clusters_share(loc.n_lists_rem, nonempty, msize,
                                                loc.n_rows_rem)
                  ELSE loc.n_lists_rem
       IN  loc' = [loc EXCEPT
              !.n_nonempty_ms_rem = nonempty,
              !.fine_clusters_nums[m] = num,
              !.n_lists_rem = U32Sub(loc.n_lists_rem, num),
              !.n_rows_rem = loc.n_rows_rem - msize,
              !.mesocluster_size_max = Max(loc.mesocluster_size_max, msize),
              !.mesocluster_size_sum = loc.mesocluster_size_sum + msize,
              !.fine_clusters_nums_max = BigMax(loc.fine_clusters_nums_max, num),
              !.fine_clusters_csum[m + 1] = U32Add(loc.fine_clusters_csum[m], num),
              !.i = m + 1]
    /\ UNCHANGED <<argVars, globals, pc, labels, centers, cluster_sizes, err, hist>>

\* The two checks after the loop, and the return.
ArrangeCheck ==
    /\ pc = "arrange_loop"
    /\ ~(loc.i < loc.n_mesoclusters)
    /\ IF loc.mesocluster_size_sum /= n_rows
       THEN pc' = "arrange_failed" /\ err' = "mesocluster sizes do not add up"
       ELSE IF loc.fine_clusters_csum[loc.n_mesoclusters] /= BigFromInt(n_clusters)
       THEN pc' = "arrange_failed" /\ err' = "fine cluster numbers do not add up"
       ELSE pc' = "arrange_done" /\ UNCHANGED err
    /\ UNCHANGED <<argVars, globals, labels, centers, cluster_sizes, hist, loc>>

NextArrange == ArrangeEnter \/ ArrangeStep \/ ArrangeCheck

SpecArrange == InitArrange /\ [][NextArrange]_vars

(***************************************************************************)
(* The index-type check build_clusters and build_hierarchical start with.  *)
(* Here n_rows and dim range over the whole of their types, so the call    *)
(* keeps them as naturals in loc: loc.n_rows of type loc.IdxT and the      *)
(* 32-bit loc.dim.                                                         *)
(***************************************************************************)
IdxTypes == {"int32_t", "uint32_t", "int64_t", "uint64_t"}

\* std::numeric_limits<IdxT>::max()
numeric_limits_max(IdxT) ==
    CASE IdxT = "int32_t" -> BigSub(BigPow2(31), <<1>>)
      [] IdxT = "uint32_t" -> BigSub(BigPow2(32), <<1>>)
      [] IdxT = "int64_t" -> BigSub(BigPow2(63), <<1>>)
      [] IdxT = "uint64_t" -> BigSub(BigPow2(64), <<1>>)

\* The product of two uint64_t values.
uint64_product(a, b) == BigWrap(BigMul(a, b), 8)

\* The condition of the RAFT_EXPECTS.
index_type_fits(IdxT, n_rows_, dim_) ==
    BigLE(uint64_product(n_rows_, dim_), numeric_limits_max(IdxT))

IndexRowCounts ==
    {<< >>, <<1>>, <<3>>, BigSub(BigPow2(31), <<1>>), BigPow2(31),
     BigSub(BigPow2(32), <<1>>), BigPow2(32), BigPow2(62), BigSub(BigPow2(63), <<1>>),
     BigPow2(63), BigSub(BigPow2(64), <<1>>)}

IndexDims == {<< >>, <<1>>, <<2>>, <<3>>, <<4>>, BigPow2(31), BigSub(BigPow2(32), <<1>>)}

InitIndex ==
    /\ pc \in {"build_clusters_start", "build_hierarchical_start"}
    /\ T = "float"
    /\ metric = "L2Expanded"
    /\ n_clusters = 1
    /\ dim = 1
    /\ n_rows = 0
    /\ dataset = << >>
    /\ dataset_norm = nullptr
    /\ labels = << >>
    /\ centers = <<RatZero>>
    /\ cluster_sizes = <<0>>
    /\ \E IdxT \in IdxTypes :
          \E rows \in {r \in IndexRowCounts : BigLE(r, numeric_limits_max(IdxT))} :
             \E d \in IndexDims : loc = [IdxT |-> IdxT, n_rows |-> rows, dim |-> d]
    /\ err = "none"
    /\ hist = [shard |-> 0, centers |-> centers, cluster_sizes |-> cluster_sizes]
    /\ DeviceDefaults

BuildClustersCheck ==
    /\ pc = "build_clusters_start"
    /\ IF index_type_fits(loc.IdxT, loc.n_rows, loc.dim)
       THEN pc' = "build_clusters_checked" /\ UNCHANGED err
       ELSE pc' = "build_failed" /\ err' = "index_type"
    /\ UNCHANGED <<argVars, globals, labels, centers, cluster_sizes, hist, loc>>

BuildHierarchicalCheck ==
    /\ pc = "build_hierarchical_start"
    /\ IF index_type_fits(loc.IdxT, loc.n_rows, loc.dim)
       THEN pc' = "build_hierarchical_checked" /\ UNCHANGED err
       ELSE pc' = "build_failed" /\ err' = "index_type"
    /\ UNCHANGED <<argVars, globals, labels, centers, cluster_sizes, hist, loc>>

NextIndex == BuildClustersCheck \/ BuildHierarchicalCheck

SpecIndex == InitIndex /\ [][NextIndex]_vars

(***************************************************************************)
(* kmeans::calc_minibatch_size over the whole range of its arguments, in   *)
(* the arithmetic of its index type.  n_clusters and dim are 32-bit,       *)
(* n_rows and mem_per_row are of type IdxT; sizeof(float) * n_clusters is  *)
(* a size_t, and the sum is converted to IdxT by the +=, which keeps it    *)
(* modulo 2^32 for the 32-bit types (two's complement for int32_t).  An    *)
(* IdxT value is a record of a sign and a magnitude.                       *)
(***************************************************************************)
Is32Bit(IdxT) == IdxT \in {"int32_t", "uint32_t"}

to_IdxT(IdxT, u) ==
    IF ~Is32Bit(IdxT) THEN [neg |-> FALSE, mag |-> u]
    ELSE LET w == BigWrap(u, 4)
         IN  IF IdxT = "int32_t" /\ BigLE(BigPow2(31), w)
             THEN [neg |-> TRUE, mag |-> BigSub(BigPow2(32), w)]
             ELSE [neg |-> FALSE, mag |-> w]

\* IdxT mem_per_row after the two +=
mem_per_row(IdxT, n_clusters_, dim_, metric_, is_float) ==
    LET nc == BigMax(<<1>>, n_clusters_)
        mem_metric == IF ~IsL2(metric_) THEN BigMulSmall(nc, SizeofFloat)
                      ELSE BigFromInt(SizeofInt)
        mem_convert == IF ~is_float THEN BigMulSmall(dim_, SizeofFloat) ELSE << >>
    IN  to_IdxT(IdxT, BigAdd(mem_metric, mem_convert))

\* The quotient of two integers as C++ computes it, rounded towards zero.
truncating_div(a, b) ==
    LET q == (IF a < 0 THEN 0 - a ELSE a) \div (IF b < 0 THEN 0 - b ELSE b)
    IN  IF (a < 0) = (b < 0) THEN q ELSE 0 - q

\* (1 << 30) / mem_per_row for a mem_per_row other than zero
minibatch_quotient(mem) ==
    IF BigLT(BigFromInt(MinibatchBudget), mem.mag) THEN 0
    ELSE truncating_div(MinibatchBudget,
                        IF mem.neg THEN 0 - BigToInt(mem.mag) ELSE BigToInt(mem.mag))

\* 64 * ceildiv(minibatch_size, (IdxT)64), then std::min<IdxT>(minibatch_size, n_rows)
minibatch_rounded_and_capped(quotient, n_rows_) ==
    LET minibatch_size == 64 * truncating_div(quotient + 64 - 1, 64)
    IN  IF minibatch_size >= 0 /\ BigLT(n_rows_, BigFromInt(minibatch_size))
        THEN BigToInt(n_rows_) ELSE minibatch_size

\* What a division by zero may leave in the quotient where it does not trap.
UndefinedQuotients == {0, 1, MinibatchBudget}

MinibatchClusterCounts ==
    {<< >>, <<1>>, <<3>>, BigPow2(24), BigPow2(28), BigAdd(BigPow2(28), <<1>>), BigPow2(29),
     BigSub(BigPow2(30), <<1>>), BigPow2(30), BigAdd(BigPow2(30), <<1>>),
     BigSub(BigPow2(32), <<1>>)}

MinibatchDims == {<< >>, <<1>>, <<96>>, BigPow2(30), BigSub(BigPow2(32), <<1>>)}

MinibatchRowCounts ==
    {<< >>, <<1>>, <<63>>, <<64>>, <<65>>, BigPow2(22), BigPow2(28),
     BigSub(BigPow2(31), <<1>>), BigPow2(40)}

MinibatchMetrics == {"L2Expanded", "L2SqrtExpanded", "InnerProduct"}

InitMinibatch ==
    /\ pc = "minibatch_start"
    /\ T = "float"
    /\ metric = "L2Expanded"
    /\ n_clusters = 1
    /\ dim = 1
    /\ n_rows = 0
    /\ dataset = << >>
    /\ dataset_norm = nullptr
    /\ labels = << >>
    /\ centers = <<RatZero>>
    /\ cluster_sizes = <<0>>
    /\ \E IdxT \in IdxTypes, c \in MinibatchClusterCounts, d \in MinibatchDims,
          m \in MinibatchMetrics, is_float \in BOOLEAN :
          \E rows \in {r \in MinibatchRowCounts : BigLE(r, numeric_limits_max(IdxT))} :
             loc = [IdxT |-> IdxT, n_clusters |-> c, n_rows |-> rows, dim |-> d,
                    metric |-> m, is_float |-> is_float, minibatch_size |-> 0]
    /\ err = "none"
    /\ hist = [shard |-> 0, centers |-> centers, cluster_sizes |-> cluster_sizes]
    /\ DeviceDefaults

\* One call.  With mem_per_row = 0 the division is undefined: the call traps, or
\* goes on with some quotient.
MinibatchCall ==
    /\ pc = "minibatch_start"
    /\ LET mem == mem_per_row(loc.IdxT, loc.n_clusters, loc.dim, loc.metric, loc.is_float)
       IN  IF mem.mag = << >>
           THEN \/ pc' = "minibatch_trapped" /\ UNCHANGED loc
                \/ /\ pc' = "minibatch_done"
                   /\ \E quotient \in UndefinedQuotients :
                         loc' = [loc EXCEPT !.minibatch_size =
                                    minibatch_rounded_and_capped(quotient, loc.n_rows)]
           ELSE /\ pc' = "minibatch_done"
                /\ loc' = [loc EXCEPT !.minibatch_size =
                              minibatch_rounded_and_capped(minibatch_quotient(mem),
                                                           loc.n_rows)]
    /\ UNCHANGED <<argVars, globals, labels, centers, cluster_sizes, err, hist>>

NextMinibatch == MinibatchCall

SpecMinibatch == InitMinibatch /\ [][NextMinibatch]_vars

(***************************************************************************)
(* The minibatch loop of kmeans::predict over argument ranges where the    *)
(* minibatch size is below n_rows, for the 64-bit index types.  Centers    *)
(* and rows of that size are not enumerated: a turn of the loop is         *)
(* recorded by the range [offset, offset + minibatch_size) whose labels    *)
(* it writes.  A call starts at the head of the loop, max_minibatch_size   *)
(* being what calc_minibatch_size returned.  The host thread runs on, so a *)
(* turn that can be taken is taken.                                        *)
(***************************************************************************)
MaxBatches == 4

BatchIdxTypes == {"int64_t", "uint64_t"}

BatchClusterCounts ==
    {<<1>>, <<3>>, BigPow2(28), BigAdd(BigPow2(28), <<1>>), BigSub(BigPow2(32), <<1>>)}

BatchDims == {<<1>>, <<96>>, BigPow2(28)}

BatchRowCounts == {0, 1, 2, 63, 64, 65, 129}

InitBatches ==
    /\ pc = "batches_loop"
    /\ T = "float"
    /\ metric = "L2Expanded"
    /\ n_clusters = 1
    /\ dim = 1
    /\ n_rows = 0
    /\ dataset = << >>
    /\ dataset_norm = nullptr
    /\ labels = << >>
    /\ centers = <<RatZero>>
    /\ cluster_sizes = <<0>>
    /\ \E IdxT \in BatchIdxTypes, c \in BatchClusterCounts, d \in BatchDims,
          m \in MinibatchMetrics, is_float \in BOOLEAN, rows \in BatchRowCounts :
          loc = [IdxT |-> IdxT, n_clusters |-> c, n_rows |-> rows, dim |-> d,
                 metric |-> m, is_float |-> is_float,
                 max_minibatch_size |->
                     minibatch_rounded_and_capped(
                         minibatch_quotient(mem_per_row(IdxT, c, d, m, is_float)),
                         BigFromInt(rows)),
                 offset |-> 0, batches |-> << >>]
    /\ err = "none"
    /\ hist = [shard |-> 0, centers |-> centers, cluster_sizes |-> cluster_sizes]
    /\ DeviceDefaults

\* for (IdxT offset = 0; offset < n_rows; offset += max_minibatch_size)
BatchesTurn ==
    /\ pc = "batches_loop"
    /\ loc.offset < loc.n_rows
    /\ Len(loc.batches) < MaxBatches
    /\ LET minibatch_size == Min(loc.max_minibatch_size, loc.n_rows - loc.offset)
       IN  loc' = [loc EXCEPT !.batches = Append(loc.batches, <<loc.offset, minibatch_size>>),
                              !.offset = loc.offset + loc.max_minibatch_size]
    /\ UNCHANGED <<pc, argVars, globals, labels, centers, cluster_sizes, err, hist>>

BatchesReturn ==
    /\ pc = "batches_loop"
    /\ ~(loc.offset < loc.n_rows)
    /\ pc' = "batches_done"
    /\ UNCHANGED <<argVars, globals, labels, centers, cluster_sizes, err, hist, loc>>

NextBatches == BatchesTurn \/ BatchesReturn

SpecBatches == InitBatches /\ [][NextBatches]_vars /\ WF_vars(NextBatches)

(***************************************************************************)
(* Calls of utils::argmin_along_rows on one row, long enough for every     *)
(* block size the launch can choose and for threads that scan several      *)
(* columns.  The row holds `base` everywhere but at two columns.           *)
(***************************************************************************)
ArgminCols == {1, 2, 130, 300, 600, 1025}

ArgminMarks(n_cols) == {c \in {0, 1, 128, 129, 256, 512, 1024, n_cols - 1} : c < n_cols}

ArgminValues == {RatInt(0), RatInt(1), RatInt(2), upper_bound}

ArgminRow(n_cols, base, mark1, val1, mark2, val2) ==
    [j \in 0..(n_cols - 1) |-> IF j = mark1 THEN val1 ELSE IF j = mark2 THEN val2 ELSE base]

InitArgmin ==
    /\ pc = "argmin_start"
    /\ T = "float"
    /\ metric = "InnerProduct"
    /\ n_clusters = 1
    /\ dim = 1
    /\ n_rows = 0
    /\ dataset = << >>
    /\ dataset_norm = nullptr
    /\ labels = << >>
    /\ centers = <<RatZero>>
    /\ cluster_sizes = <<0>>
    /\ \E n_cols \in ArgminCols, base \in {RatInt(2), upper_bound} :
          \E mark1 \in ArgminMarks(n_cols), mark2 \in ArgminMarks(n_cols),
             val1 \in ArgminValues, val2 \in ArgminValues :
             loc = [n_cols |-> n_cols, base |-> base, mark1 |-> mark1, val1 |-> val1,
                    mark2 |-> mark2, val2 |-> val2, out |-> 0]
    /\ err = "none"
    /\ hist = [shard |-> 0, centers |-> centers, cluster_sizes |-> cluster_sizes]
    /\ DeviceDefaults

ArgminCall ==
    /\ pc = "argmin_start"
    /\ loc' = [loc EXCEPT !.out =
                  argmin_along_rows(1, loc.n_cols,
                                    ArgminRow(loc.n_cols, loc.base, loc.mark1, loc.val1,
                                              loc.mark2, loc.val2))[0]]
    /\ pc' = "argmin_done"
    /\ UNCHANGED <<argVars, globals, labels, centers, cluster_sizes, err, hist>>

NextArgmin == ArgminCall

SpecArgmin == InitArgmin /\ [][NextArgmin]_vars

(***************************************************************************)
(* Calls of utils::check_pointer_residency with any number of pointers of  *)
(* the memory types cudaPointerGetAttributes reports.                      *)
(***************************************************************************)
MaxPointers == 4

MemoryTypes ==
    {"cudaMemoryTypeUnregistered", "cudaMemoryTypeHost", "cudaMemoryTypeDevice",
     "cudaMemoryTypeManaged"}

InitResidency ==
    /\ pc = "residency_start"
    /\ T = "float"
    /\ metric = "L2Expanded"
    /\ n_clusters = 1
    /\ dim = 1
    /\ n_rows = 0
    /\ dataset = << >>
    /\ dataset_norm = nullptr
    /\ labels = << >>
    /\ centers = <<RatZero>>
    /\ cluster_sizes = <<0>>
    /\ \E n_args \in 1..MaxPointers :
          \E ptrs \in [1..n_args -> MemoryTypes] : loc = [ptrs |-> ptrs, res |-> "none"]
    /\ err = "none"
    /\ hist = [shard |-> 0, centers |-> centers, cluster_sizes |-> cluster_sizes]
    /\ DeviceDefaults

ResidencyCall ==
    /\ pc = "residency_start"
    /\ loc' = [loc EXCEPT !.res = check_pointer_residency(loc.ptrs)]
    /\ pc' = "residency_done"
    /\ UNCHANGED <<argVars, globals, labels, centers, cluster_sizes, err, hist>>

NextResidency == ResidencyCall

SpecResidency == InitResidency /\ [][NextResidency]_vars

(***************************************************************************)
(* utils::normalize_rows: every row whose sum of squares is above 1e-8 is  *)
(* multiplied by the reciprocal of its square root.  The root is exact     *)
(* where the sum of squares is the square of a rational.                   *)
(***************************************************************************)
RECURSIVE ISqrtBetween(_, _, _)
ISqrtBetween(n, lo, hi) ==
    IF hi - lo <= 1 THEN (IF lo * lo = n THEN lo ELSE hi)
    ELSE LET mid == (lo + hi) \div 2
         IN  IF mid * mid <= n THEN ISqrtBetween(n, mid, hi) ELSE ISqrtBetween(n, lo, mid)

ISqrt(n) == ISqrtBetween(n, 0, Min(n, 46340) + 1)

rsqrtf(x) == <<ISqrt(x[2]), ISqrt(x[1])>>

\* sqsum <= 1e-8
normalize_skips(sqsum) == sqsum[1] <= sqsum[2] \div 100000000

normalize_rows(n_rows_, n_cols, a) ==
    [idx \in DOMAIN a |->
        LET sqsum == Dot(a, n_cols * (idx \div n_cols), a, n_cols * (idx \div n_cols), n_cols)
        IN  IF normalize_skips(sqsum) THEN a[idx] ELSE RatMul(a[idx], rsqrtf(sqsum))]

NormalizedMetrics == {"InnerProduct", "CosineExpanded", "CorrelationExpanded"}

(***************************************************************************)
(* kmeans::predict as one step: the minibatch loop run to its end.         *)
(***************************************************************************)
RECURSIVE predict_from(_, _, _, _, _, _, _, _, _, _, _)
predict_from(centers_, n_clusters_, dim_, T_, dataset_, dataset_norm_, n_rows_, labels_, metric_, offset, max_minibatch_size) ==
    IF offset < n_rows_
    THEN LET r == predict_minibatch(centers_, n_clusters_, dim_, T_, dataset_, dataset_norm_,
                                    n_rows_, labels_, metric_, offset, max_minibatch_size)
         IN  IF r.ok
             THEN predict_from(centers_, n_clusters_, dim_, T_, dataset_, dataset_norm_,
                               n_rows_, r.labels, metric_, offset + max_minibatch_size,
                               max_minibatch_size)
             ELSE r
    ELSE [ok |-> TRUE, labels |-> labels_]

predict(centers_, n_clusters_, dim_, T_, dataset_, dataset_norm_, n_rows_, labels_, metric_) ==
    predict_from(centers_, n_clusters_, dim_, T_, dataset_, dataset_norm_, n_rows_, labels_,
                 metric_, 0,
                 calc_minibatch_size(n_clusters_, n_rows_, dim_, metric_, T_ = "float"))

(***************************************************************************)
(* kmeans::build_clusters and kmeans::balancing_em_iters.  A run is either *)
(* build_clusters, which seeds the labels and the centers and runs the EM  *)
(* with balancing_pullback = 2 and the threshold 0.25, or                  *)
(* balancing_em_iters itself on centers its caller has initialized.        *)
(* em.n_adjusted counts the iterations on which adjust_centers returned    *)
(* true.                                                                   *)
(***************************************************************************)
MaxIters == 3

MaxEMRows == 3

MaxEMClusters == 2

\* The longest run of the EM loop explored.
MaxEMIterations == 8

kBuildClustersPullback == 2

\* The pullback build_hierarchical passes for its final pass.
kHierPullback == 5

balancing_counter_start_mutant_zero(balancing_pullback) == 0

\* uint32_t balancing_counter = balancing_pullback;
balancing_counter_start(balancing_pullback) == balancing_pullback

EMLocals(call, n_iters, balancing_pullback) ==
    [call |-> call, requested |-> n_iters, n_iters |-> n_iters, iter |-> 0,
     balancing_counter |-> balancing_counter_start(balancing_pullback),
     balancing_pullback |-> balancing_pullback, n_adjusted |-> 0]

EMRows(T_, d) == ElemRows(T_, {r \in RawRows(T_, d) : r[1] /= 0})

InitEM ==
    /\ T \in {"float", "int8_t"}
    /\ metric \in {"L2Expanded", "InnerProduct", "CosineExpanded"}
    /\ n_clusters \in 1..MaxEMClusters
    /\ dim \in (IF metric \in NormalizedMetrics THEN {1} ELSE Dims)
    /\ n_rows \in 1..MaxEMRows
    /\ dataset \in Datasets(EMRows(T, dim), n_rows, dim)
    /\ dataset_norm = nullptr
    /\ residency \in {AllOn("cudaMemoryTypeHost"), AllOn("cudaMemoryTypeManaged")}
    /\ static_i = 0
    /\ i_primes = 0
    /\ dst = << >>
    /\ hier = NoHier
    /\ err = "none"
    /\ loc = NoLocals
    /\ labels = [r \in 0..(n_rows - 1) |-> StaleLabel]
    /\ cluster_sizes = StaleBuffer("garbage", n_clusters, dim).cluster_sizes
    /\ centers = StaleBuffer("garbage", n_clusters, dim).centers
    /\ hist = [shard |-> 0, centers |-> centers, cluster_sizes |-> cluster_sizes]
    /\ \E n_iters \in 0..MaxIters :
          \/ /\ pc = "build_clusters_start"
             /\ threshold = Rat(1, 4)
             /\ em = EMLocals("build_clusters", n_iters, kBuildClustersPullback)
          \/ /\ pc = "em_loop"
             /\ threshold = Rat(1, 4)
             /\ \E balancing_pullback \in {1, 3, kHierPullback} :
                   em = EMLocals("balancing_em_iters", n_iters, balancing_pullback)

\* build_clusters up to the EM: the labels are seeded with i % n_clusters and the
\* centers and sizes computed from them.
BuildClustersSeed ==
    /\ pc = "build_clusters_start"
    /\ labels' = [r \in 0..(n_rows - 1) |-> r % n_clusters]
    /\ LET r == calc_centers_and_sizes(centers, cluster_sizes, n_clusters, dim, T,
                                       dataset, n_rows, labels', TRUE)
       IN  /\ centers' = r.centers
           /\ cluster_sizes' = r.cluster_sizes
    /\ pc' = "em_loop"
    /\ UNCHANGED <<argVars, globals, err, hist, loc>>

balancing_due_mutant_first(iter) == TRUE

\* if (iter > 0 && kmeans::adjust_centers(...))
balancing_due(iter) == iter > 0

\* The head of the loop: adjust_centers is called on every iteration but the first;
\* when the budget is used up the EM, and build_clusters with it, return.
EMLoop ==
    /\ pc = "em_loop"
    /\ em.iter < MaxEMIterations
    /\ IF em.iter < em.n_iters
       THEN IF balancing_due(em.iter)
            THEN pc' = "adjust_start" /\ loc' = AdjustLocals(1)
            ELSE pc' = "em_normalize" /\ UNCHANGED loc
       ELSE pc' = "em_done" /\ UNCHANGED loc
    /\ UNCHANGED <<argVars, globals, labels, centers, cluster_sizes, err, hist>>

pullback_reached_mutant_always(balancing_counter, balancing_pullback) == TRUE

pullback_reached_mutant_late(balancing_counter, balancing_pullback) ==
    balancing_counter > balancing_pullback

\* balancing_counter++ >= balancing_pullback, on the value before the increment
pullback_reached(balancing_counter, balancing_pullback) ==
    balancing_counter >= balancing_pullback

\* adjust_centers has returned: the balancing counter and the budget.
EMAdjusted ==
    /\ pc = "adjust_done"
    /\ em' = IF loc.adjusted
             THEN IF pullback_reached(em.balancing_counter, em.balancing_pullback)
                  THEN [em EXCEPT
                          !.balancing_counter = em.balancing_counter + 1 - em.balancing_pullback,
                          !.n_iters = em.n_iters + 1,
                          !.n_adjusted = em.n_adjusted + 1]
                  ELSE [em EXCEPT !.balancing_counter = em.balancing_counter + 1,
                                  !.n_adjusted = em.n_adjusted + 1]
             ELSE em
    /\ pc' = "em_normalize"
    /\ UNCHANGED <<argVars, static_i, i_primes, dst, hier, labels, centers, cluster_sizes,
                   err, hist, loc>>

EMNormalize ==
    /\ pc = "em_normalize"
    /\ centers' = IF metric \in NormalizedMetrics
                  THEN normalize_rows(n_clusters, dim, centers) ELSE centers
    /\ pc' = "em_predict"
    /\ UNCHANGED <<argVars, globals, labels, cluster_sizes, err, hist, loc>>

\* The expectation step; a failure of predict ends the run.
EMPredict ==
    /\ pc = "em_predict"
    /\ LET r == predict(centers, n_clusters, dim, T, dataset, dataset_norm, n_rows, labels,
                        metric)
       IN  IF r.ok
           THEN labels' = r.labels /\ pc' = "em_calc" /\ UNCHANGED err
           ELSE pc' = "em_failed" /\ err' = "metric_not_supported" /\ UNCHANGED labels
    /\ UNCHANGED <<argVars, globals, centers, cluster_sizes, hist, loc>>

\* The maximization step, and iter++.
EMCalc ==
    /\ pc = "em_calc"
    /\ LET r == calc_centers_and_sizes(centers, cluster_sizes, n_clusters, dim, T,
                                       dataset, n_rows, labels, TRUE)
       IN  /\ centers' = r.centers
           /\ cluster_sizes' = r.cluster_sizes
    /\ em' = [em EXCEPT !.iter = em.iter + 1]
    /\ pc' = "em_loop"
    /\ UNCHANGED <<argVars, static_i, i_primes, dst, hier, labels, err, hist, loc>>

NextEM ==
    \/ BuildClustersSeed
    \/ EMLoop
    \/ AdjustEnter
    \/ AdjustPrime
    \/ AdjustSwitch
    \/ \E l \in 0..(kBlockDimY * ceildiv(MaxEMClusters, kBlockDimY) - 1) :
          /\ pc = "kernel"
          /\ l \in DOMAIN loc.warps
          /\ (KernelProbe(l) \/ KernelUpdate(l))
    \/ KernelReturn
    \/ HostLoop
    \/ HostProbe
    \/ HostUpdate
    \/ EMAdjusted
    \/ EMNormalize
    \/ EMPredict
    \/ EMCalc

SpecEM == InitEM /\ [][NextEM]_vars

(***************************************************************************)
(* The loop of balancing_em_iters against every sequence of results of     *)
(* adjust_centers: the call is replaced by its return value, either one.   *)
(***************************************************************************)
BudgetPullbacks == {1, kBuildClustersPullback, 3, kHierPullback}

InitBudget ==
    /\ pc = "em_loop"
    /\ T = "float"
    /\ metric = "L2Expanded"
    /\ n_clusters \in 1..MaxEMClusters
    /\ dim = 1
    /\ n_rows = 1
    /\ dataset \in Datasets(EMRows(T, dim), n_rows, dim)
    /\ dataset_norm = nullptr
    /\ labels = [r \in 0..(n_rows - 1) |-> StaleLabel]
    /\ cluster_sizes = StaleBuffer("garbage", n_clusters, dim).cluster_sizes
    /\ centers = StaleBuffer("garbage", n_clusters, dim).centers
    /\ err = "none"
    /\ hist = [shard |-> 0, centers |-> centers, cluster_sizes |-> cluster_sizes]
    /\ loc = NoLocals
    /\ residency = AllOn("cudaMemoryTypeHost")
    /\ threshold = Rat(1, 4)
    /\ static_i = 0
    /\ i_primes = 0
    /\ dst = << >>
    /\ hier = NoHier
    /\ \E n_iters \in 0..MaxIters, balancing_pullback \in BudgetPullbacks :
          em = EMLocals("balancing_em_iters", n_iters, balancing_pullback)

\* adjust_centers returns, true or false.
AdjustOutcome ==
    /\ pc = "adjust_start"
    /\ \E adjusted \in BOOLEAN : loc' = [loc EXCEPT !.adjusted = adjusted]
    /\ pc' = "adjust_done"
    /\ UNCHANGED <<argVars, globals, labels, centers, cluster_sizes, err, hist>>

NextBudget ==
    \/ EMLoop
    \/ AdjustOutcome
    \/ EMAdjusted
    \/ EMNormalize
    \/ EMPredict
    \/ EMCalc

SpecBudget == InitBudget /\ [][NextBudget]_vars

(***************************************************************************)
(* kmeans::build_hierarchical and kmeans::build_fine_clusters.  While the  *)
(* call runs, hier holds its arguments and locals; the arguments of the    *)
(* build_clusters or balancing_em_iters call in progress are in the        *)
(* argument variables, as for a direct call.  hier.writers[r] lists the    *)
(* mesoclusters whose fine centers were copied into row r of               *)
(* cluster_centers.                                                        *)
(***************************************************************************)
MaxHierRows == 4

MaxHierClusters == 4

MaxHierIters == 2

HierValues == {1, 6}

HierMetrics == {"L2Expanded", "InnerProduct", "L1"}

kHierThreshold == Rat(1, 5)

kHierItersDivisor == 10

kHierMinIters == 2

\* std::min<uint32_t>(n_clusters, std::sqrt(n_clusters) + 0.5)
n_mesoclusters_of(n_clusters_) ==
    IF n_clusters_ = 0 THEN 0
    ELSE Min(n_clusters_,
             CHOOSE m \in 1..n_clusters_ : m * m - m < n_clusters_ /\ n_clusters_ <= m * m + m)

ArrangeLocals(n_mesoclusters) ==
    [n_mesoclusters |-> n_mesoclusters, i |-> 0,
     n_lists_rem |-> << >>, n_nonempty_ms_rem |-> 0, n_rows_rem |-> 0,
     mesocluster_size_sum |-> 0, mesocluster_size_max |-> 0,
     fine_clusters_nums_max |-> << >>,
     fine_clusters_nums |-> [m \in 0..(n_mesoclusters - 1) |-> << >>],
     fine_clusters_csum |-> [m \in 0..n_mesoclusters |-> << >>]]

\* The rows j with labels_mptr[j] = i, in increasing order.
RECURSIVE mc_trainset_ids(_, _, _)
mc_trainset_ids(labels_mptr, n, i) ==
    IF n = 0 THEN << >>
    ELSE mc_trainset_ids(labels_mptr, n - 1, i)
         \o (IF labels_mptr[n - 1] = i THEN <<n - 1>> ELSE << >>)

\* thrust::gather
gather(map, n, input) == [k \in 0..(n - 1) |-> input[map[k]]]

fine_centers_offset_mutant_front(dim_, csum_i) == 0

\* cluster_centers + (dim * fine_clusters_csum[i])
fine_centers_offset(dim_, csum_i) == dim_ * csum_i

\* raft::copy(dst, src, len)
raft_copy(dst_, offset, src, len) ==
    [idx \in DOMAIN dst_ |->
        IF idx >= offset /\ idx < offset + len THEN src[idx - offset] ELSE dst_[idx]]

InitHier ==
    /\ pc = "build_hierarchical_start"
    /\ T \in {"float", "int8_t"}
    /\ metric \in HierMetrics
    /\ n_clusters \in 1..MaxHierClusters
    /\ dim = 1
    /\ n_rows \in 0..MaxHierRows
    /\ dataset \in [0..(n_rows * dim - 1) ->
                      IF T = "float" THEN {RatInt(v) : v \in HierValues} ELSE HierValues]
    /\ dataset_norm = nullptr
    /\ labels = << >>
    /\ cluster_sizes = << >>
    /\ centers = StaleBuffer("garbage", n_clusters, dim).centers
    /\ err = "none"
    /\ hist = [shard |-> 0, centers |-> centers, cluster_sizes |-> cluster_sizes]
    /\ loc = NoLocals
    /\ residency = AllOn("cudaMemoryTypeDevice")
    /\ threshold = Rat(1, 4)
    /\ static_i = 0
    /\ i_primes = 0
    /\ dst = << >>
    /\ em = NoEM
    /\ \E n_iters \in 0..MaxHierIters : hier = [phase |-> "start", n_iters |-> n_iters]

\* Up to the call of build_clusters for the mesoclusters: the index check, the
\* number of mesoclusters and the norms of the dataset.
HierEnter ==
    /\ pc = "build_hierarchical_start"
    /\ IF ~index_type_fits("int64_t", BigFromInt(n_rows), BigFromInt(dim))
       THEN /\ pc' = "hier_failed"
            /\ err' = "index type"
            /\ UNCHANGED <<argVars, hier, em, labels, centers, cluster_sizes>>
       ELSE LET n_mesoclusters == n_mesoclusters_of(n_clusters)
                norm == IF IsL2(metric) THEN Pointer(compute_norm(T, dataset, dim, n_rows))
                        ELSE nullptr
            IN  /\ hier' = [phase |-> "meso", n_iters |-> hier.n_iters, T |-> T,
                            dataset |-> dataset, dataset_norm |-> norm, n_rows |-> n_rows,
                            n_clusters |-> n_clusters, n_mesoclusters |-> n_mesoclusters,
                            cluster_centers |-> centers,
                            mesocluster_labels |-> << >>, mesocluster_sizes |-> << >>,
                            fine_clusters_nums |-> << >>, fine_clusters_csum |-> << >>,
                            i |-> 0, n_clusters_done |-> 0,
                            writers |-> [r \in 0..(n_clusters - 1) |-> << >>]]
                /\ n_clusters' = n_mesoclusters
                /\ dataset_norm' = norm
                /\ centers' = StaleBuffer("garbage", n_mesoclusters, dim).centers
                /\ labels' = [r \in 0..(n_rows - 1) |-> StaleLabel]
                /\ cluster_sizes' = StaleBuffer("garbage", n_mesoclusters, dim).cluster_sizes
                /\ residency' = [AllOn("cudaMemoryTypeDevice") EXCEPT
                                    !.labels = "cudaMemoryTypeManaged",
                                    !.cluster_sizes = "cudaMemoryTypeManaged"]
                /\ em' = EMLocals("build_clusters", hier.n_iters, kBuildClustersPullback)
                /\ pc' = "build_clusters_start"
                /\ UNCHANGED <<T, metric, dim, n_rows, dataset, threshold, err>>
    /\ UNCHANGED <<static_i, i_primes, dst, hist, loc>>

\* The mesoclusters are built: arrange_fine_clusters is called.
HierArrange ==
    /\ pc = "em_done"
    /\ hier.phase = "meso"
    /\ hier' = [hier EXCEPT !.phase = "arrange", !.mesocluster_labels = labels,
                            !.mesocluster_sizes = cluster_sizes]
    /\ n_clusters' = hier.n_clusters
    /\ loc' = ArrangeLocals(hier.n_mesoclusters)
    /\ em' = NoEM
    /\ pc' = "arrange_start"
    /\ UNCHANGED <<T, metric, dim, n_rows, dataset, dataset_norm, residency, threshold,
                   static_i, i_primes, dst, labels, centers, cluster_sizes, err, hist>>

\* arrange_fine_clusters has returned: build_fine_clusters starts.
FineEnter ==
    /\ pc = "arrange_done"
    /\ hier.phase = "arrange"
    /\ hier' = [hier EXCEPT
          !.phase = "fine",
          !.fine_clusters_nums = [m \in 0..(hier.n_mesoclusters - 1) |->
                                    BigToInt(loc.fine_clusters_nums[m])],
          !.fine_clusters_csum = [m \in 0..hier.n_mesoclusters |->
                                    BigToInt(loc.fine_clusters_csum[m])],
          !.i = 0,
          !.n_clusters_done = 0]
    /\ loc' = NoLocals
    /\ pc' = "fine_loop"
    /\ UNCHANGED <<argVars, static_i, i_primes, dst, em, labels, centers, cluster_sizes, err,
                   hist>>

\* One turn of the loop of build_fine_clusters up to the call of build_clusters on
\* the rows of mesocluster i, or its return past the last mesocluster.
FineLoop ==
    /\ pc = "fine_loop"
    /\ hier.i < hier.n_mesoclusters
    /\ LET i == hier.i
           ids == mc_trainset_ids(hier.mesocluster_labels, hier.n_rows, i)
           k == Len(ids)
           msize == hier.mesocluster_sizes[i]
           num == hier.fine_clusters_nums[i]
           row_ids == [j \in 0..(k - 1) |-> ids[j + 1]]
       IN  IF k = 0
           THEN IF num /= 0
                THEN /\ pc' = "hier_failed"
                     /\ err' = "fine clusters for the empty mesocluster"
                     /\ UNCHANGED <<argVars, hier, em, labels, centers, cluster_sizes>>
                ELSE /\ hier' = [hier EXCEPT !.i = i + 1]
                     /\ UNCHANGED <<argVars, pc, err, em, labels, centers, cluster_sizes>>
           ELSE IF ~(num > 0)
           THEN /\ pc' = "hier_failed"
                /\ err' = "no fine clusters for a non-empty mesocluster"
                /\ UNCHANGED <<argVars, hier, em, labels, centers, cluster_sizes>>
           ELSE /\ T' = "float"
                /\ dataset' = copy_selected_rows(msize, dim, hier.T, hier.dataset, row_ids,
                                                 dim, Array(msize * dim, LAMBDA e : StaleElement),
                                                 dim)
                /\ dataset_norm' =
                      IF IsL2(metric)
                      THEN Pointer(gather(row_ids, msize, hier.dataset_norm.data))
                      ELSE Pointer(Array(msize, LAMBDA e : StaleElement))
                /\ n_rows' = msize
                /\ n_clusters' = num
                /\ centers' = StaleBuffer("garbage", num, dim).centers
                /\ labels' = [r \in 0..(msize - 1) |-> StaleLabel]
                /\ cluster_sizes' = StaleBuffer("garbage", num, dim).cluster_sizes
                /\ residency' = AllOn("cudaMemoryTypeDevice")
                /\ em' = EMLocals("build_clusters", hier.n_iters, kBuildClustersPullback)
                /\ pc' = "build_clusters_start"
                /\ UNCHANGED <<metric, dim, threshold, hier, err>>
    /\ UNCHANGED <<static_i, i_primes, dst, hist, loc>>

\* build_clusters has returned: the fine centers are copied into cluster_centers.
FineCopy ==
    /\ pc = "em_done"
    /\ hier.phase = "fine"
    /\ LET i == hier.i
           offset == fine_centers_offset(dim, hier.fine_clusters_csum[i])
           len == hier.fine_clusters_nums[i] * dim
       IN  hier' = [hier EXCEPT
              !.cluster_centers = raft_copy(hier.cluster_centers, offset, centers, len),
              !.writers = [r \in DOMAIN hier.writers |->
                              IF dim * r >= offset /\ dim * r < offset + len
                              THEN Append(hier.writers[r], i) ELSE hier.writers[r]],
              !.n_clusters_done = hier.n_clusters_done + hier.fine_clusters_nums[i],
              !.i = i + 1]
    /\ em' = NoEM
    /\ pc' = "fine_loop"
    /\ UNCHANGED <<argVars, static_i, i_primes, dst, labels, centers, cluster_sizes, err, hist,
                   loc>>

\* build_fine_clusters has returned: the check of its result, and the call of
\* balancing_em_iters over all the clusters with fresh labels and sizes buffers.
HierFinal ==
    /\ pc = "fine_loop"
    /\ ~(hier.i < hier.n_mesoclusters)
    /\ IF hier.n_clusters_done /= hier.n_clusters
       THEN /\ pc' = "hier_failed"
            /\ err' = "Didn't process all clusters."
            /\ UNCHANGED <<argVars, hier, em, labels, centers, cluster_sizes>>
       ELSE /\ hier' = [hier EXCEPT !.phase = "final"]
            /\ T' = hier.T
            /\ dataset' = hier.dataset
            /\ dataset_norm' = hier.dataset_norm
            /\ n_rows' = hier.n_rows
            /\ n_clusters' = hier.n_clusters
            /\ centers' = hier.cluster_centers
            /\ labels' = [r \in 0..(hier.n_rows - 1) |-> StaleLabel]
            /\ cluster_sizes' = StaleBuffer("garbage", hier.n_clusters, dim).cluster_sizes
            /\ residency' = AllOn("cudaMemoryTypeDevice")
            /\ threshold' = kHierThreshold
            /\ em' = EMLocals("balancing_em_iters",
                              Max(hier.n_iters \div kHierItersDivisor, kHierMinIters),
                              kHierPullback)
            /\ pc' = "em_loop"
            /\ UNCHANGED <<metric, dim, err>>
    /\ UNCHANGED <<static_i, i_primes, dst, hist, loc>>

\* The final pass has returned, and build_hierarchical with it.
HierReturn ==
    /\ pc = "em_done"
    /\ hier.phase = "final"
    /\ hier' = [hier EXCEPT !.phase = "done", !.cluster_centers = centers]
    /\ pc' = "hier_done"
    /\ UNCHANGED <<argVars, static_i, i_primes, dst, em, labels, centers, cluster_sizes, err,
                   hist, loc>>

NextHier ==
    \/ HierEnter
    \/ BuildClustersSeed
    \/ EMLoop
    \/ AdjustEnter
    \/ AdjustPrime
    \/ AdjustSwitch
    \/ \E l \in 0..(kBlockDimY * ceildiv(MaxHierClusters, kBlockDimY) - 1) :
          /\ pc = "kernel"
          /\ l \in DOMAIN loc.warps
          /\ (KernelProbe(l) \/ KernelUpdate(l))
    \/ KernelReturn
    \/ EMAdjusted
    \/ EMNormalize
    \/ EMPredict
    \/ EMCalc
    \/ HierArrange
    \/ ArrangeEnter
    \/ ArrangeStep
    \/ ArrangeCheck
    \/ FineEnter
    \/ FineLoop
    \/ FineCopy
    \/ HierFinal
    \/ HierReturn

SpecHier == InitHier /\ [][NextHier]_vars

(***************************************************************************)
(* The row counts of build_hierarchical at full scale: n_rows of a 64-bit  *)
(* IdxT against the uint32_t mesocluster sizes.  The calls are those with  *)
(* n_iters = 0 and one mesocluster, where the labels are the seeded        *)
(* i % n_mesoclusters = 0 and no data is needed to follow the counters:    *)
(* mesocluster_sizes[0] as countLabels leaves it in a uint32_t, the sum    *)
(* and the checks of arrange_fine_clusters, the uint32_t k of              *)
(* build_fine_clusters and the count of clusters done.                     *)
(***************************************************************************)
ScaleRowCounts ==
    {<< >>, <<1>>, <<3>>, BigSub(BigPow2(32), <<1>>), BigPow2(32), BigAdd(BigPow2(32), <<1>>),
     BigPow2(33), BigPow2(40)}

ScaleClusterCounts == {k \in 1..2 : n_mesoclusters_of(k) = 1}

InitScale ==
    /\ pc = "scale_start"
    /\ T \in {"float", "int8_t"}
    /\ metric \in MinibatchMetrics
    /\ n_clusters \in ScaleClusterCounts
    /\ dim = 1
    /\ n_rows = 0
    /\ dataset = << >>
    /\ dataset_norm = nullptr
    /\ labels = << >>
    /\ centers = <<RatZero>>
    /\ cluster_sizes = <<0>>
    /\ \E IdxT \in BatchIdxTypes, rows \in ScaleRowCounts :
          loc = [IdxT |-> IdxT, n_rows |-> rows, n_mesoclusters |-> 0,
                 mesocluster_sizes |-> << >>, mesocluster_size_sum |-> << >>,
                 fine_clusters_nums |-> << >>, fine_clusters_csum |-> << >>,
                 k |-> << >>, n_clusters_done |-> 0]
    /\ err = "none"
    /\ hist = [shard |-> 0, centers |-> centers, cluster_sizes |-> cluster_sizes]
    /\ DeviceDefaults

\* build_hierarchical up to the return of build_clusters for the mesoclusters: every
\* row is labelled 0 and countLabels leaves the count in a uint32_t.
ScaleCoarse ==
    /\ pc = "scale_start"
    /\ IF ~index_type_fits(loc.IdxT, loc.n_rows, BigFromInt(dim))
       THEN pc' = "scale_failed" /\ err' = "index type" /\ UNCHANGED loc
       ELSE /\ loc' = [loc EXCEPT !.n_mesoclusters = n_mesoclusters_of(n_clusters),
                                  !.mesocluster_sizes = <<BigWrap(loc.n_rows, 4)>>]
            /\ pc' = "scale_coarse_done"
            /\ UNCHANGED err
    /\ UNCHANGED <<argVars, globals, labels, centers, cluster_sizes, hist>>

\* arrange_fine_clusters with one mesocluster: it is the last one and takes
\* n_lists_rem = n_clusters.
ScaleArrange ==
    /\ pc = "scale_coarse_done"
    /\ LET nums == <<BigFromInt(n_clusters)>>
           csum == <<U32Add(<< >>, nums[1])>>
           size_sum == loc.mesocluster_sizes[1]
       IN  /\ loc' = [loc EXCEPT !.fine_clusters_nums = nums, !.fine_clusters_csum = csum,
                                 !.mesocluster_size_sum = size_sum]
           /\ IF size_sum /= loc.n_rows
              THEN pc' = "scale_failed" /\ err' = "mesocluster sizes do not add up"
              ELSE IF csum[1] /= BigFromInt(n_clusters)
              THEN pc' = "scale_failed" /\ err' = "fine cluster numbers do not add up"
              ELSE pc' = "scale_arranged" /\ UNCHANGED err
    /\ UNCHANGED <<argVars, globals, labels, centers, cluster_sizes, hist>>

\* build_fine_clusters with one mesocluster, and the check of its result.
ScaleFine ==
    /\ pc = "scale_arranged"
    /\ LET k == BigWrap(loc.n_rows, 4)
           num == BigToInt(loc.fine_clusters_nums[1])
       IN  IF k = << >>
           THEN IF num /= 0
                THEN /\ pc' = "scale_failed"
                     /\ err' = "fine clusters for the empty mesocluster"
                     /\ loc' = [loc EXCEPT !.k = k]
                ELSE /\ loc' = [loc EXCEPT !.k = k]
                     /\ IF 0 /= n_clusters
                        THEN pc' = "scale_failed" /\ err' = "Didn't process all clusters."
                        ELSE pc' = "scale_fine_done" /\ UNCHANGED err
           ELSE IF ~(num > 0)
           THEN /\ pc' = "scale_failed"
                /\ err' = "no fine clusters for a non-empty mesocluster"
                /\ loc' = [loc EXCEPT !.k = k]
           ELSE /\ loc' = [loc EXCEPT !.k = k, !.n_clusters_done = num]
                /\ IF num /= n_clusters
                   THEN pc' = "scale_failed" /\ err' = "Didn't process all clusters."
                   ELSE pc' = "scale_fine_done" /\ UNCHANGED err
    /\ UNCHANGED <<argVars, globals, labels, centers, cluster_sizes, hist>>

NextScale == ScaleCoarse \/ ScaleArrange \/ ScaleFine

SpecScale == InitScale /\ [][NextScale]_vars

(***************************************************************************)
(* The stream of build_fine_clusters.  The host thread issues work to the  *)
(* one CUDA stream and runs on; the device takes the issued operations in  *)
(* order, at its own pace; sync_stream holds the host until the stream is  *)
(* empty.  loc.stream is the work issued and not yet completed, each       *)
(* operation with the mesocluster it was issued for; loc.ids_of is the     *)
(* mesocluster whose row ids the host wrote last into mc_trainset_ids.     *)
(* The call starts in build_hierarchical with the work of the coarse       *)
(* build_clusters still in the stream.                                     *)
(***************************************************************************)
MaxStreamMesoclusters == 3

CoarseWork == 0 - 1

StreamOp(kind, meso) == [kind |-> kind, meso |-> meso]

sync_stream_mutant_async(stream_) == TRUE

\* handle.sync_stream(stream) returns once all the work issued has completed
sync_stream(stream_) == stream_ = << >>

InitStream ==
    /\ pc = "stream_hier_sync"
    /\ T = "float"
    /\ metric \in {"L2Expanded", "InnerProduct"}
    /\ n_clusters = 1
    /\ dim = 1
    /\ n_rows = 0
    /\ dataset = << >>
    /\ dataset_norm = nullptr
    /\ labels = << >>
    /\ centers = <<RatZero>>
    /\ cluster_sizes = <<0>>
    /\ \E n_mesoclusters \in 1..MaxStreamMesoclusters :
          \E sizes \in [0..(n_mesoclusters - 1) -> 0..1],
             nums \in [0..(n_mesoclusters - 1) -> 0..1] :
             loc = [n_mesoclusters |-> n_mesoclusters, mesocluster_sizes |-> sizes,
                    fine_clusters_nums |-> nums, i |-> 0, ids_of |-> CoarseWork,
                    stream |-> <<StreamOp("build_clusters", CoarseWork)>>]
    /\ err = "none"
    /\ hist = [shard |-> 0, centers |-> centers, cluster_sizes |-> cluster_sizes]
    /\ DeviceDefaults

\* The device completes the operation at the head of the stream.
StreamComplete ==
    /\ pc \in {"stream_hier_sync", "stream_ids", "stream_copy_selected", "stream_gather",
               "stream_build_clusters", "stream_raft_copy", "stream_sync", "stream_done",
               "stream_failed"}
    /\ loc.stream /= << >>
    /\ loc' = [loc EXCEPT !.stream = Tail(loc.stream)]
    /\ UNCHANGED <<pc, argVars, globals, labels, centers, cluster_sizes, err, hist>>

\* build_hierarchical: handle.sync_stream(stream) before the mesocluster sizes and
\* labels are read on the host.
StreamHierSync ==
    /\ pc = "stream_hier_sync"
    /\ sync_stream(loc.stream)
    /\ pc' = "stream_ids"
    /\ UNCHANGED <<argVars, globals, labels, centers, cluster_sizes, err, hist, loc>>

\* The head of a turn: the host writes the row ids of mesocluster i into the scratch
\* buffer and checks the number of fine clusters; past the last mesocluster it returns.
StreamIds ==
    /\ pc = "stream_ids"
    /\ IF ~(loc.i < loc.n_mesoclusters)
       THEN pc' = "stream_done" /\ UNCHANGED <<loc, err>>
       ELSE LET k == loc.mesocluster_sizes[loc.i]
                num == loc.fine_clusters_nums[loc.i]
            IN  IF k = 0
                THEN IF num /= 0
                     THEN /\ pc' = "stream_failed"
                          /\ err' = "fine clusters for the empty mesocluster"
                          /\ UNCHANGED loc
                     ELSE /\ loc' = [loc EXCEPT !.i = loc.i + 1]
                          /\ UNCHANGED <<pc, err>>
                ELSE /\ loc' = [loc EXCEPT !.ids_of = loc.i]
                     /\ IF ~(num > 0)
                        THEN /\ pc' = "stream_failed"
                             /\ err' = "no fine clusters for a non-empty mesocluster"
                        ELSE pc' = "stream_copy_selected" /\ UNCHANGED err
    /\ UNCHANGED <<argVars, globals, labels, centers, cluster_sizes, hist>>

\* utils::copy_selected, thrust::gather (L2 metrics only), build_clusters and
\* raft::copy are issued for mesocluster i, one after the other.
StreamIssue ==
    /\ pc \in {"stream_copy_selected", "stream_gather", "stream_build_clusters",
               "stream_raft_copy"}
    /\ LET kind == CASE pc = "stream_copy_selected" -> "copy_selected"
                     [] pc = "stream_gather" -> "gather"
                     [] pc = "stream_build_clusters" -> "build_clusters"
                     [] pc = "stream_raft_copy" -> "raft_copy"
       IN  IF pc = "stream_gather" /\ ~IsL2(metric)
           THEN UNCHANGED loc
           ELSE loc' = [loc EXCEPT !.stream = Append(loc.stream, StreamOp(kind, loc.i))]
    /\ pc' = CASE pc = "stream_copy_selected" -> "stream_gather"
               [] pc = "stream_gather" -> "stream_build_clusters"
               [] pc = "stream_build_clusters" -> "stream_raft_copy"
               [] pc = "stream_raft_copy" -> "stream_sync"
    /\ UNCHANGED <<argVars, globals, labels, centers, cluster_sizes, err, hist>>

\* handle.sync_stream(stream) at the end of the turn, and i++.
StreamSync ==
    /\ pc = "stream_sync"
    /\ sync_stream(loc.stream)
    /\ loc' = [loc EXCEPT !.i = loc.i + 1]
    /\ pc' = "stream_ids"
    /\ UNCHANGED <<argVars, globals, labels, centers, cluster_sizes, err, hist>>

NextStream == StreamComplete \/ StreamHierSync \/ StreamIds \/ StreamIssue \/ StreamSync

SpecStream == InitStream /\ [][NextStream]_vars


(***************************************************************************)
(* C2: after calc_centers_and_sizes with reset_counters = true over rows   *)
(* whose labels lie in [0, n_clusters), cluster_sizes[k] is the number of  *)
(* rows labelled k, so the sizes sum to n_rows, whatever the buffers held. *)
(***************************************************************************)
RowsLabelled(k) == {r \in 0..(n_rows - 1) : labels[r] = k}

UnionCall == calc_centers_and_sizes(hist.centers, hist.cluster_sizes, n_clusters, dim, T,
                                    dataset, n_rows, labels, TRUE)

C3_IncrementalEquivalence ==
    pc = "calc_ab_done" =>
        /\ centers = UnionCall.centers
        /\ cluster_sizes = UnionCall.cluster_sizes

RowsOfShardA(k) == {r \in RowsLabelled(k) : r < hist.shard}

RowsOfShardB(k) == {r \in RowsLabelled(k) : r >= hist.shard}

C3_Witness ==
    /\ pc = "calc_ab_done"
    /\ n_clusters = MaxClusters
    /\ \E k \in 0..(n_clusters - 1) : RowsOfShardA(k) = {} /\ RowsOfShardB(k) /= {}
    /\ \E k \in 0..(n_clusters - 1) : RowsOfShardA(k) /= {} /\ RowsOfShardB(k) /= {}
    /\ \E k \in 0..(n_clusters - 1) : RowsLabelled(k) = {}
    /\ \E idx \in DOMAIN centers : centers[idx][2] > 1

(***************************************************************************)
(* C1: when predict returns under a supported metric with n_clusters >= 1, *)
(* every label lies in [0, n_clusters), no center is nearer to the row     *)
(* than the labelled one, and every center of a lower index is strictly    *)
(* farther: among equidistant centers the lowest index wins.  The distance *)
(* is the squared Euclidean distance for the L2 metrics and the negated    *)
(* dot product for InnerProduct.                                           *)
(***************************************************************************)
Elem(r, j) == mapping(T, dataset[j + dim * r])

RECURSIVE SqDist(_, _, _)
SqDist(r, k, n) ==
    IF n = 0 THEN RatZero
    ELSE LET diff == RatAdd(Elem(r, n - 1), RatNeg(centers[(n - 1) + dim * k]))
         IN  RatAdd(SqDist(r, k, n - 1), RatMul(diff, diff))

RECURSIVE NegDot(_, _, _)
NegDot(r, k, n) ==
    IF n = 0 THEN RatZero
    ELSE RatAdd(NegDot(r, k, n - 1),
                RatNeg(RatMul(Elem(r, n - 1), centers[(n - 1) + dim * k])))

Distance(r, k) == IF IsL2(metric) THEN SqDist(r, k, dim) ELSE NegDot(r, k, dim)

PredictReturned == pc = "predict_done" /\ (IsL2(metric) \/ metric = "InnerProduct")

C1_NearestLowestIndex ==
    (PredictReturned /\ n_clusters >= 1) =>
        \A r \in 0..(n_rows - 1) :
            /\ labels[r] \in 0..(n_clusters - 1)
            /\ \A k \in 0..(n_clusters - 1) :
                  /\ RatLE(Distance(r, labels[r]), Distance(r, k))
                  /\ k < labels[r] => RatLT(Distance(r, labels[r]), Distance(r, k))

\* A row whose two nearest centers are equidistant, neither of them center 0, under
\* the metric that takes the argmin kernel.
C1_Witness ==
    /\ PredictReturned
    /\ metric = "InnerProduct"
    /\ n_clusters >= 3
    /\ \E r \in 0..(n_rows - 1) :
          /\ labels[r] = 1
          /\ Distance(r, 2) = Distance(r, 1)
          /\ RatLT(Distance(r, 1), Distance(r, 0))

(***************************************************************************)
(* C6: a call of predict with a metric other than L2Expanded,              *)
(* L2SqrtExpanded and InnerProduct never returns normally, and it leaves   *)
(* every label as it was, for every n_rows >= 0 and every n_clusters.      *)
(***************************************************************************)
C6_UnsupportedMetricFails ==
    ~(IsL2(metric) \/ metric = "InnerProduct") =>
        /\ pc /= "predict_done"
        /\ \A r \in 0..(n_rows - 1) : labels[r] = StaleLabel

(***************************************************************************)
(* C4: in every adjust_centers call, on the host path and on the device    *)
(* path, the row a starved cluster was adjusted with belongs to a cluster  *)
(* whose size is at least floor(n_rows / n_clusters).                      *)
(***************************************************************************)
InAdjust == pc \in {"adjust_start", "adjust_primes", "adjust_switch", "kernel",
                    "host_loop", "host_probe", "host_update", "adjust_done",
                    "adjust_failed"}

HostAccessible(type) ==
    type \in {"cudaMemoryTypeUnregistered", "cudaMemoryTypeHost", "cudaMemoryTypeManaged"}

DeviceAccessible(type) == type \in {"cudaMemoryTypeDevice", "cudaMemoryTypeManaged"}

MixedPointers(ptrs) ==
    /\ \E p \in ptrs : ~HostAccessible(residency[p])
    /\ \E p \in ptrs : ~DeviceAccessible(residency[p])

MixedAdjust == InAdjust /\ MixedPointers({"centers", "dataset", "labels", "cluster_sizes"})

MixedCopy ==
    /\ pc \in {"copy_start", "copy_done", "copy_failed"}
    /\ MixedPointers({"dataset", "dst", "labels"})

DstUntouched == \A idx \in DOMAIN dst : dst[idx] = StaleElement

C8_MixedFailsBeforeWrite ==
    /\ (MixedAdjust /\ n_clusters >= 1) =>
          /\ pc \in {"adjust_start", "adjust_primes", "adjust_switch", "adjust_failed"}
          /\ centers = hist.centers
    /\ MixedCopy => (pc /= "copy_done" /\ DstUntouched)

\* A failed call that had a starved cluster to adjust.
C8_Witness ==
    /\ MixedAdjust
    /\ pc = "adjust_failed"
    /\ n_rows >= 1
    /\ \E l \in 0..(n_clusters - 1) : cluster_sizes[l] = 0

\* C8 as the specification has it: every such call of adjust_centers, whatever
\* n_clusters, ends as a fatal error and never as a normal return.
C8_MixedAlwaysFails ==
    /\ MixedAdjust =>
          /\ pc \in {"adjust_start", "adjust_primes", "adjust_switch", "adjust_failed"}
          /\ centers = hist.centers
    /\ MixedCopy => (pc /= "copy_done" /\ DstUntouched)

(***************************************************************************)
(* C5: for mesocluster sizes summing to n_rows, at least one mesocluster   *)
(* and a requested n_clusters <= n_rows that is at least the number of     *)
(* non-empty mesoclusters, arrange_fine_clusters returns counts whose sum, *)
(* taken over the naturals, is n_clusters, with at least 1 for every       *)
(* non-empty mesocluster and 0 for every empty one.                        *)
(***************************************************************************)
ArrangeEnded == pc \in {"arrange_done", "arrange_failed"}

NonEmptyMesoclusters == {m \in 0..(loc.n_mesoclusters - 1) : cluster_sizes[m] > 0}

RECURSIVE BigSumTo(_, _)
BigSumTo(f, n) == IF n = 0 THEN << >> ELSE BigAdd(f[n - 1], BigSumTo(f, n - 1))

ArrangedWell ==
    /\ pc = "arrange_done"
    /\ BigSumTo(loc.fine_clusters_nums, loc.n_mesoclusters) = BigFromInt(n_clusters)
    /\ \A m \in 0..(loc.n_mesoclusters - 1) :
          IF cluster_sizes[m] > 0 THEN BigLE(<<1>>, loc.fine_clusters_nums[m])
          ELSE loc.fine_clusters_nums[m] = << >>

C5_ArrangeWithEnoughClusters ==
    (ArrangeEnded /\ n_clusters <= n_rows /\ Cardinality(NonEmptyMesoclusters) <= n_clusters)
        => ArrangedWell

\* A call where the proportional share of a mesocluster rounds to 0 and is raised to 1,
\* and where an empty mesocluster lies between non-empty ones.
C5_Witness ==
    /\ pc = "arrange_done"
    /\ n_clusters <= n_rows
    /\ Cardinality(NonEmptyMesoclusters) <= n_clusters
    /\ loc.n_mesoclusters >= 3
    /\ cluster_sizes[1] = 0
    /\ cluster_sizes[2] > 0
    /\ proportional_share(BigFromInt(n_clusters), cluster_sizes[0], n_rows) = << >>
    /\ loc.fine_clusters_nums[0] = <<1>>

\* C5 as the specification has it: any n_clusters from 1 to n_rows.
C5_ArrangeAnyClusters ==
    (ArrangeEnded /\ n_clusters >= 1 /\ n_clusters <= n_rows) => ArrangedWell

(***************************************************************************)
(* C7: build_clusters and build_hierarchical raise the index-type error if *)
(* and only if the product n_rows * dim, taken over the naturals, exceeds  *)
(* the maximum of IdxT, and pass the check otherwise.                      *)
(***************************************************************************)
C7_CheckIsExact ==
    pc \in {"build_clusters_checked", "build_hierarchical_checked", "build_failed"} =>
        (pc = "build_failed" <=>
            BigLT(numeric_limits_max(loc.IdxT), BigMul(loc.n_rows, loc.dim)))

(***************************************************************************)
(* C9: throughout balancing_em_iters with balancing_pullback = p >= 1, the *)
(* budget n_iters is the requested one plus ceil(r / p), r being the       *)
(* number of iterations so far on which adjust_centers returned true: the  *)
(* budget goes up by one on the 1st, (1+p)-th, (1+2p)-th, ... such         *)
(* iteration and on no other.                                              *)
(***************************************************************************)
C9_BudgetFollowsAdjustments ==
    em.call /= "none" =>
        em.n_iters = em.requested + ceildiv(em.n_adjusted, em.balancing_pullback)

\* With p = 2 the third adjusted iteration has extended the budget a second time and
\* the fourth has not.
C9_Witness ==
    /\ em.call /= "none"
    /\ em.balancing_pullback = 2
    /\ em.n_adjusted = 4
    /\ em.n_iters = em.requested + 2

(***************************************************************************)
(* C10: build_clusters with n_clusters = 1 and n_rows >= 1 never sees      *)
(* adjust_centers report a change, and when it returns cluster_sizes[0] is *)
(* n_rows, every label is 0, the center is the mean of the rows and        *)
(* exactly the requested n_iters iterations have been executed.            *)
(***************************************************************************)
MeanOfRows ==
    [j \in 0..(dim - 1) |->
        RatDiv(RatSumTo([r \in 0..(n_rows - 1) |-> Elem(r, j)], n_rows), RatInt(n_rows))]

CalcReturned == pc \in {"calc_a_done", "calc_ab_done", "calc_acc_done"}

AccumulatedNothing(k) ==
    CASE pc = "calc_a_done" -> RowsOfShardA(k) = {}
      [] pc = "calc_ab_done" -> RowsLabelled(k) = {}
      [] pc = "calc_acc_done" -> RowsLabelled(k) = {} /\ hist.cluster_sizes[k] = 0
      [] OTHER -> FALSE

C11_EmptyClusterIsZero ==
    CalcReturned =>
        /\ err = "none"
        /\ \A idx \in DOMAIN centers : centers[idx][2] > 0
        /\ \A k \in 0..(n_clusters - 1) :
              AccumulatedNothing(k) =>
                  /\ cluster_sizes[k] = 0
                  /\ \A j \in 0..(dim - 1) : centers[j + dim * k] = RatZero

\* An accumulating call on a cluster of previous size zero whose center
\* buffer held a non-zero value, next to a cluster that received rows.
C11_Witness ==
    /\ pc = "calc_acc_done"
    /\ \E k \in 0..(n_clusters - 1) :
          /\ AccumulatedNothing(k)
          /\ hist.centers[dim * k] /= RatZero
    /\ \E k \in 0..(n_clusters - 1) : RowsLabelled(k) /= {}

(***************************************************************************)
(* C12: adjust_centers returns true exactly when some cluster l has        *)
(* cluster_sizes[l] <= floor(average * threshold), average being           *)
(* floor(n_rows / n_clusters), which is exactly when some center row was   *)
(* rewritten; the value is the same on the host and on the device path,    *)
(* and it is false for n_clusters = 0.                                     *)
(***************************************************************************)
FloorOfProduct(a, t) == (a * t[1]) \div t[2]

StarvedClusters ==
    IF n_clusters = 0 THEN {}
    ELSE {l \in 0..(n_clusters - 1) :
            cluster_sizes[l] <= FloorOfProduct(n_rows \div n_clusters, threshold)}

RewrittenClusters == {l \in 0..(n_clusters - 1) : loc.donor[l] /= -1}

FineRange(i) ==
    {r \in 0..(hier.n_clusters - 1) :
        /\ hier.fine_clusters_csum[i] <= r
        /\ r < hier.fine_clusters_csum[i] + hier.fine_clusters_nums[i]}

FineClustersProduced ==
    SumTo([i \in 0..(hier.n_mesoclusters - 1) |->
              IF \E r \in 0..(hier.n_rows - 1) : hier.mesocluster_labels[r] = i
              THEN hier.fine_clusters_nums[i] ELSE 0],
          hier.n_mesoclusters)

C13_FineCentersPartitionRows ==
    /\ hier.phase = "fine" =>
          \A r \in 0..(hier.n_clusters - 1) :
             \A w \in 1..Len(hier.writers[r]) :
                /\ r \in FineRange(hier.writers[r][w])
                /\ hier.writers[r][w] < hier.i + (IF pc = "fine_loop" THEN 0 ELSE 1)
    /\ hier.phase \in {"final", "done"} =>
          /\ \A i, j \in 0..(hier.n_mesoclusters - 1) :
                i /= j => FineRange(i) \cap FineRange(j) = {}
          /\ UNION {FineRange(i) : i \in 0..(hier.n_mesoclusters - 1)}
                = 0..(hier.n_clusters - 1)
          /\ \A i \in 0..(hier.n_mesoclusters - 1) :
                Cardinality(FineRange(i)) = hier.fine_clusters_nums[i]
          /\ \A r \in 0..(hier.n_clusters - 1) :
                /\ Len(hier.writers[r]) = 1
                /\ r \in FineRange(hier.writers[r][1])
          /\ FineClustersProduced = hier.n_clusters
    /\ (hier.phase = "final" /\ pc = "em_loop" /\ em.iter = 0) =>
          centers = hier.cluster_centers

\* The final pass starts after two mesoclusters got different numbers of fine
\* clusters.
C13_Witness ==
    /\ hier.phase = "final"
    /\ pc = "em_loop"
    /\ em.iter = 0
    /\ hier.n_mesoclusters = 2
    /\ hier.fine_clusters_nums[0] >= 1
    /\ hier.fine_clusters_nums[1] >= 1
    /\ hier.fine_clusters_nums[0] /= hier.fine_clusters_nums[1]

(***************************************************************************)
(* C14: for a starved cluster l of size s with donor row i, adjust_centers *)
(* replaces center l by (w * old_center_l + x_i) / (w + 1), w = min(s, 7), *)
(* x_i the converted donor row and old_center_l the center of l itself as  *)
(* it was before the call.                                                 *)
(***************************************************************************)
OwnCenterAverage(l, i, j) ==
    LET w == Min(cluster_sizes[l], 7)
    IN  RatDiv(RatAdd(RatMul(RatInt(w), hist.centers[j + dim * l]), Elem(i, j)),
               RatInt(w + 1))

C14_OwnCenterAveraged ==
    (InAdjust /\ em.call = "none" /\ n_clusters >= 1) =>
        \A l \in 0..(n_clusters - 1) :
            loc.donor[l] /= -1 =>
                \A j \in 0..(dim - 1) :
                    centers[j + dim * l] = OwnCenterAverage(l, loc.donor[l], j)

(***************************************************************************)
(* C15: a step of adjust_centers, on the host or on the device path,       *)
(* changes nothing but center rows of clusters whose size is at most       *)
(* floor(average * threshold): the other center rows, the labels, the      *)
(* cluster sizes and the dataset stay as they are.                         *)
(***************************************************************************)
C15_OnlyStarvedRowsChange ==
    [][(InAdjust /\ em.call = "none") =>
          /\ labels' = labels
          /\ cluster_sizes' = cluster_sizes
          /\ dataset' = dataset
          /\ \A idx \in DOMAIN centers :
                (idx \div dim) \notin StarvedClusters => centers'[idx] = centers[idx]]_vars

\* The host path has returned after rewriting a starved row next to a cluster that
\* is not starved.
C15_Witness ==
    /\ pc = "adjust_done"
    /\ em.call = "none"
    /\ loc.warps = << >>
    /\ RewrittenClusters /= {}
    /\ StarvedClusters /= 0..(n_clusters - 1)
    /\ \E l \in RewrittenClusters : centers[dim * l] /= hist.centers[dim * l]

(***************************************************************************)
(* C16: the stride adjust_centers chooses is a prime of the table that     *)
(* does not divide n_rows, so it is coprime with n_rows, and any n_rows    *)
(* consecutive probes, of the host sequence i <- (i + stride) mod n_rows   *)
(* or of the device sequence (stride * (c + 1)) mod n_rows, visit every    *)
(* row index in [0, n_rows) exactly once.                                  *)
(***************************************************************************)
StrideChosen == pc \in {"adjust_switch", "kernel", "host_loop", "host_probe"}

IsPrime(p) == p >= 2 /\ \A d \in 2..53 : d * d > p \/ p % d /= 0

ProbeWindow(start) == {loc.probes[k] : k \in start..(start + n_rows - 1)}

C16_StrideCoversRows ==
    StrideChosen =>
        /\ \E k \in 1..Len(kPrimes) : kPrimes[k] = loc.ofst
        /\ IsPrime(loc.ofst)
        /\ n_rows % loc.ofst /= 0
        /\ GCD(loc.ofst, n_rows) = 1
        /\ \A start \in 1..(Len(loc.probes) - n_rows + 1) :
              ProbeWindow(start) = 0..(n_rows - 1)

\* Two full rounds of probes over 29 rows (the first prime of the table had to be
\* passed over), on the host from a stale i and on the device.
C16_Witness ==
    /\ StrideChosen
    /\ n_rows = 29
    /\ loc.ofst = 71
    /\ Len(loc.probes) >= 2 * n_rows
    /\ loc.probes[1] /= loc.probes[2]

(***************************************************************************)
(* C17: in balancing_em_iters the balancing counter starts at the pullback *)
(* and changes only on iterations where adjust_centers reports a change:   *)
(* when it has reached the pullback the budget is extended by one and the  *)
(* counter restarts from 1, otherwise the counter goes up by one and the   *)
(* budget stays; the budget changes in no other way.  So the first such    *)
(* iteration extends the budget, and then every pullback-th one.           *)
(***************************************************************************)
EMRunning == em.call /= "none"

AdjustReportedChange == pc = "adjust_done" /\ loc.adjusted

C17_CounterStartsAtPullback ==
    /\ EMRunning => em.balancing_counter = em.balancing_pullback
    /\ [][(EMRunning /\ EMRunning') =>
             /\ em'.balancing_counter /= em.balancing_counter => AdjustReportedChange
             /\ em'.n_iters /= em.n_iters =>
                   /\ AdjustReportedChange
                   /\ em.balancing_counter >= em.balancing_pullback
                   /\ em'.n_iters = em.n_iters + 1
                   /\ em'.balancing_counter = 1
             /\ (AdjustReportedChange /\ em.balancing_counter >= em.balancing_pullback) =>
                   em'.n_iters = em.n_iters + 1
             /\ (AdjustReportedChange /\ em.balancing_counter < em.balancing_pullback) =>
                   em'.balancing_counter = em.balancing_counter + 1]_vars

\* With a pullback of 3 the first iteration on which adjust_centers reported a change
\* has extended the budget.
C17_Witness ==
    /\ EMRunning
    /\ em.balancing_pullback = 3
    /\ em.n_adjusted = 1
    /\ em.n_iters = em.requested + 1
    /\ em.balancing_counter = 1

\* C17 as stated: the counter counts from zero, so the budget is extended on the
\* pullback-th iteration with a change, and not before.
C17_CounterStartsAtZero ==
    EMRunning =>
        /\ em.n_iters = em.requested + (em.n_adjusted \div em.balancing_pullback)
        /\ em.n_iters > em.requested => em.n_adjusted >= em.balancing_pullback

(***************************************************************************)
(* C18: with balancing_pullback >= 2 (the callers pass 2 and 5)            *)
(* balancing_em_iters comes to the end of its loop for every requested     *)
(* n_iters, whatever adjust_centers reports, a change on every iteration   *)
(* included: the budget, and with it the number of iterations, never       *)
(* exceeds 2 * n_iters - 1 (0 for n_iters = 0), so the iteration counter   *)
(* reaches the budget; with a pullback of 2 and n_iters >= 1 at most       *)
(* 2 * n_iters - 1 iterations are executed.                                *)
(***************************************************************************)
IterationCeiling == IF em.requested = 0 THEN 0 ELSE 2 * em.requested - 1

C18_LoopEnds ==
    (EMRunning /\ em.balancing_pullback >= 2) =>
        /\ em.iter <= em.n_iters
        /\ em.n_iters <= IterationCeiling
        /\ em.iter < MaxEMIterations
        /\ (pc = "em_loop" /\ em.iter = IterationCeiling) => em.iter = em.n_iters
        /\ (em.balancing_pullback = 2 /\ em.requested >= 1) =>
              em.iter <= 2 * em.requested - 1

\* A run with a pullback of 2 in which adjust_centers reported a change on every
\* iteration after the first one: the bound is attained and the loop has ended.
C18_Witness ==
    /\ pc = "em_done"
    /\ em.balancing_pullback = 2
    /\ em.requested >= 2
    /\ em.n_adjusted = em.iter - 1
    /\ em.iter = 2 * em.requested - 1

(***************************************************************************)
(* C19: every iteration of balancing_em_iters runs adjust_centers (only    *)
(* when iter > 0), then the normalization of the centers (only for         *)
(* InnerProduct, CosineExpanded and CorrelationExpanded), then predict,    *)
(* then calc_centers_and_sizes with reset_counters = true.  So while       *)
(* adjust_centers runs, a predict and an aggregation of the same run have  *)
(* written the labels and the sizes, and sizes[k] is the number of labels  *)
(* equal to k; and the labels the aggregation reads are the ones predict   *)
(* computed from the centers as adjust_centers and the normalization left  *)
(* them.                                                                   *)
(***************************************************************************)
EMStepPcs ==
    {"build_clusters_start", "em_loop", "em_normalize", "em_predict", "em_calc",
     "em_done", "em_failed"}

InAdjustOfEM == EMRunning /\ pc \notin EMStepPcs

LabelCounts ==
    [k \in 0..(n_clusters - 1) |->
        Cardinality({r \in 0..(n_rows - 1) : labels[r] = k})]

NormalizedInClaim == {"InnerProduct", "CosineExpanded", "CorrelationExpanded"}

EMStepOrder ==
    /\ (pc = "em_loop" /\ pc' /= pc) =>
          pc' = IF em.iter >= em.n_iters THEN "em_done"
                ELSE IF em.iter > 0 THEN "adjust_start" ELSE "em_normalize"
    /\ (pc = "adjust_done" /\ pc' /= pc) => pc' = "em_normalize"
    /\ (pc /= "em_normalize" /\ pc' = "em_normalize") => pc \in {"em_loop", "adjust_done"}
    /\ (pc = "em_normalize" /\ pc' /= pc) =>
          /\ pc' = "em_predict"
          /\ centers' = IF metric \in NormalizedInClaim
                        THEN normalize_rows(n_clusters, dim, centers) ELSE centers
    /\ (pc = "em_predict" /\ pc' /= pc) =>
          /\ pc' \in {"em_calc", "em_failed"}
          /\ centers' = centers
    /\ (pc = "em_calc" /\ pc' /= pc) =>
          /\ pc' = "em_loop"
          /\ em'.iter = em.iter + 1
          /\ labels' = labels
          /\ cluster_sizes' = LabelCounts
    /\ (EMRunning /\ labels' /= labels) => pc \in {"build_clusters_start", "em_predict"}
    /\ (EMRunning /\ cluster_sizes' /= cluster_sizes) =>
          pc \in {"build_clusters_start", "em_calc"}

MinibatchEnded == pc \in {"minibatch_done", "minibatch_trapped"}

\* 64 * ceil(floor(2^30 / mem) / 64) over the integers, for a mem other than 0
RoundedQuotient(mem) ==
    LET floored ==
            IF ~mem.neg
            THEN IF BigLT(BigFromInt(MinibatchBudget), mem.mag) THEN 0
                 ELSE MinibatchBudget \div BigToInt(mem.mag)
            ELSE IF BigLT(BigFromInt(MinibatchBudget), mem.mag) THEN 0 - 1
                 ELSE 0 - ((MinibatchBudget + BigToInt(mem.mag) - 1) \div BigToInt(mem.mag))
    IN  64 * (0 - ((0 - floored) \div 64))

C20_MinibatchSizeFormula ==
    MinibatchEnded =>
        LET mem == mem_per_row(loc.IdxT, loc.n_clusters, loc.dim, loc.metric, loc.is_float)
            rounded == RoundedQuotient(mem)
        IN  /\ pc = "minibatch_done"
            /\ mem.mag /= << >>
            /\ loc.minibatch_size =
                  IF rounded >= 0 /\ BigLT(loc.n_rows, BigFromInt(rounded))
                  THEN BigToInt(loc.n_rows) ELSE rounded
            /\ loc.minibatch_size < 0 \/ BigLE(BigFromInt(loc.minibatch_size), loc.n_rows)
            /\ (loc.minibatch_size < 0 \/ BigFromInt(loc.minibatch_size) /= loc.n_rows)
                  => loc.minibatch_size % 64 = 0

(***************************************************************************)
(* C21: the minibatch size calc_minibatch_size returns, multiplied by the  *)
(* memory one row is estimated to need (4 bytes for the L2 metrics, or     *)
(* 4 * n_clusters bytes, plus 4 * dim bytes when the dataset is not        *)
(* float), is at most 2^30 bytes.                                          *)
(***************************************************************************)
EstimatedBytesPerRow ==
    BigAdd(IF IsL2(loc.metric) THEN <<4>> ELSE BigMulSmall(BigMax(<<1>>, loc.n_clusters), 4),
           IF loc.is_float THEN << >> ELSE BigMulSmall(loc.dim, 4))

C21_MinibatchWithinBudget ==
    (pc = "minibatch_done" /\ loc.minibatch_size >= 0) =>
        BigLE(BigMul(BigFromInt(loc.minibatch_size), EstimatedBytesPerRow), BigPow2(30))

(***************************************************************************)
(* C22: predict terminates for every n_rows >= 0, n_clusters, dim and      *)
(* supported metric; its minibatches are taken at increasing offsets, are  *)
(* pairwise disjoint and cover [0, n_rows) exactly, so that every label is *)
(* written once; the minibatch size is at least 1 whenever n_rows >= 1.    *)
(***************************************************************************)
BatchesCoverRows ==
    /\ \A b \in 1..Len(loc.batches) :
          /\ loc.batches[b][2] >= 1
          /\ loc.batches[b][1] =
                IF b = 1 THEN 0 ELSE loc.batches[b - 1][1] + loc.batches[b - 1][2]
    /\ loc.n_rows =
          IF loc.batches = << >> THEN 0
          ELSE loc.batches[Len(loc.batches)][1] + loc.batches[Len(loc.batches)][2]

C22_PredictCoversRows ==
    /\ <>(pc = "batches_done")
    /\ [](pc = "batches_done" => BatchesCoverRows)
    /\ []((pc = "batches_loop" /\ loc.n_rows >= 1) => loc.max_minibatch_size >= 1)

(***************************************************************************)
(* C23: for a row with at least one entry below the float upper bound,     *)
(* for every n_cols >= 1 and every block size the launch chooses (a power  *)
(* of two from 128 to 1024), the strided scan and tree reduction of        *)
(* argmin_along_rows_kernel output the index a sequential scan returns:    *)
(* the lowest column index that attains the minimum of the row.            *)
(***************************************************************************)
ArgminRowNow ==
    ArgminRow(loc.n_cols, loc.base, loc.mark1, loc.val1, loc.mark2, loc.val2)

SequentialArgmin(row, n_cols) ==
    LET lowest == CHOOSE v \in {row[j] : j \in 0..(n_cols - 1)} :
                     \A j \in 0..(n_cols - 1) : RatLE(v, row[j])
    IN  CHOOSE j \in 0..(n_cols - 1) : row[j] = lowest /\ \A k \in 0..(j - 1) : row[k] /= lowest

ArgminBlockSize == Max(argmin_block_dim(1024, loc.n_cols), 128)

C23_ParallelArgminIsSequential ==
    (pc = "argmin_done" /\ \E j \in 0..(loc.n_cols - 1) : ArgminRowNow[j] /= upper_bound) =>
        /\ ArgminBlockSize \in {128, 256, 512, 1024}
        /\ loc.out = SequentialArgmin(ArgminRowNow, loc.n_cols)

\* Two columns scanned by one thread of a 128-thread block tie for the minimum,
\* which no column before them attains.
C23_Witness ==
    /\ pc = "argmin_done"
    /\ ArgminBlockSize = 128
    /\ loc.mark1 = 1
    /\ loc.mark2 = 129
    /\ loc.val1 = loc.val2
    /\ RatLT(loc.val1, loc.base)
    /\ loc.out = 1

(***************************************************************************)
(* C24: over n >= 1 pointers, each host-only, device-only or managed,      *)
(* check_pointer_residency returns host_and_device iff all are managed,    *)
(* device_only iff none is host-only and not all are managed, host_only    *)
(* iff none is device-only and not all are managed, and mixed iff at least *)
(* one is host-only and at least one is device-only.                       *)
(***************************************************************************)
IsHostOnly(type) == type \in {"cudaMemoryTypeUnregistered", "cudaMemoryTypeHost"}

IsDeviceOnly(type) == type = "cudaMemoryTypeDevice"

IsManaged(type) == type = "cudaMemoryTypeManaged"

C24_ResidencyClassification ==
    pc = "residency_done" =>
        LET args == 1..Len(loc.ptrs)
            allManaged == \A p \in args : IsManaged(loc.ptrs[p])
            someHost == \E p \in args : IsHostOnly(loc.ptrs[p])
            someDevice == \E p \in args : IsDeviceOnly(loc.ptrs[p])
        IN  /\ loc.res = "host_and_device" <=> allManaged
            /\ loc.res = "device_only" <=> (~someHost /\ ~allManaged)
            /\ loc.res = "host_only" <=> (~someDevice /\ ~allManaged)
            /\ loc.res = "mixed" <=> (someHost /\ someDevice)

\* Managed pointers alongside device pointers: device_only.
C24_Witness ==
    /\ pc = "residency_done"
    /\ loc.res = "device_only"
    /\ \E p \in 1..Len(loc.ptrs) : IsManaged(loc.ptrs[p])
    /\ \E p \in 1..Len(loc.ptrs) : IsDeviceOnly(loc.ptrs[p])

(***************************************************************************)
(* C25: arrange_fine_clusters returns without a failure only if, summed    *)
(* over the naturals, the counts it returns add up to n_clusters and the   *)
(* mesocluster sizes add up to n_rows: no wrap-around of its 32-bit        *)
(* counters lets an allocation with another sum pass the checks.           *)
(***************************************************************************)
C25_ChecksCatchWrongSums ==
    pc = "arrange_done" =>
        /\ BigSumTo(loc.fine_clusters_nums, loc.n_mesoclusters) = BigFromInt(n_clusters)
        /\ SumTo(cluster_sizes, loc.n_mesoclusters) = n_rows

(***************************************************************************)
(* C26: in a build_hierarchical call with n_rows >= 1, n_clusters >= 1 and *)
(* a supported metric no invariant check fails: the number of mesoclusters *)
(* is in [1, n_clusters], the mesocluster sizes add up to n_rows, the      *)
(* allocation adds up to n_clusters with 0 for the empty and at least 1    *)
(* for the non-empty mesoclusters, and the number of fine clusters         *)
(* produced is n_clusters.                                                 *)
(***************************************************************************)
C26_InvariantChecksHold ==
    (loc.n_rows /= << >> /\ pc /= "scale_start") =>
        /\ pc /= "scale_failed"
        /\ loc.n_mesoclusters \in 1..n_clusters
        /\ BigSumTo([m \in 0..(loc.n_mesoclusters - 1) |-> loc.mesocluster_sizes[m + 1]],
                    loc.n_mesoclusters) = loc.n_rows
        /\ pc \in {"scale_arranged", "scale_fine_done"} =>
              /\ loc.fine_clusters_nums[1] = BigFromInt(n_clusters)
              /\ (loc.fine_clusters_nums[1] = << >>) <=> (loc.mesocluster_sizes[1] = << >>)
        /\ pc = "scale_fine_done" => loc.n_clusters_done = n_clusters

(***************************************************************************)
(* C27: build_fine_clusters takes the mesoclusters strictly one after      *)
(* another: the work issued to the stream for one mesocluster (the gather  *)
(* of its rows and norms, its sub-clustering, the copy of its centers) has *)
(* completed before the host rewrites the row-id scratch buffer for the    *)
(* next one and before any work of the next one is issued, so the stream   *)
(* never holds work of a mesocluster other than the current one.           *)
(***************************************************************************)
StreamIndices == 1..Len(loc.stream)

InFineLoop ==
    pc \in {"stream_ids", "stream_copy_selected", "stream_gather", "stream_build_clusters",
            "stream_raft_copy", "stream_sync"}

C27_MesoclustersOneAtATime ==
    /\ [](InFineLoop => \A o \in StreamIndices : loc.stream[o].meso = loc.i)
    /\ [][/\ loc'.ids_of /= loc.ids_of => loc.stream = << >>
          /\ (InFineLoop /\ loc'.i /= loc.i) => loc.stream = << >>
          /\ Len(loc'.stream) > Len(loc.stream) =>
                \A o \in StreamIndices : loc.stream[o].meso = loc.i]_vars

\* The work of one mesocluster is all in the stream, none of it completed, and the
\* host waits; an earlier mesocluster has been through.
C27_Witness ==
    /\ pc = "stream_sync"
    /\ loc.i >= 1
    /\ loc.mesocluster_sizes[loc.i - 1] = 1
    /\ Len(loc.stream) = 4
    /\ loc.ids_of = loc.i

(***************************************************************************)
(* C28: the probe state of adjust_centers lives on from call to call: the  *)
(* index into the table of primes is changed by nothing but the loop that  *)
(* picks the stride, and the host row cursor by nothing but the host probe *)
(* loop, so that each call starts from what the calls before it left; the  *)
(* stride of a call is the prime at the index, which counts the calls, and *)
(* the device path leaves the row cursor alone.                            *)
(***************************************************************************)
InAdjustCall ==
    pc \in {"adjust_start", "adjust_primes", "adjust_switch", "kernel", "host_loop",
            "host_probe", "host_update", "adjust_done", "adjust_failed"}

C28_ProbeStatePersists ==
    /\ [][InAdjustCall =>
            /\ pc /= "adjust_primes" => i_primes' = i_primes
            /\ pc /= "host_probe" => static_i' = static_i
            /\ pc = "host_probe" => static_i' = (static_i + loc.ofst) % n_rows]_vars
    /\ []((InAdjustCall /\ n_rows >= 1 /\ pc \notin {"adjust_start", "adjust_primes"}
             /\ n_clusters > 0) =>
            /\ i_primes = loc.calls % Len(kPrimes)
            /\ loc.ofst = kPrimes[i_primes + 1])

\* The second of two calls with the same arguments on the host side has ended; its
\* donor row for the first starved cluster is another than the one the first call took
\* (the first row the first call probed, which was a good one), and so is the center.
FirstStarved ==
    CHOOSE l \in 0..(n_clusters - 1) :
        /\ ~skip_big(cluster_sizes[l], loc.average, threshold)
        /\ \A m \in 0..(l - 1) : skip_big(cluster_sizes[m], loc.average, threshold)

FirstCallProbe == kPrimes[2] % n_rows

C28_Witness ==
    /\ pc = "adjust_done"
    /\ loc.calls = 2
    /\ n_clusters > 0
    /\ n_rows >= 1
    /\ residency = AllOn("cudaMemoryTypeHost")
    /\ \E l \in 0..(n_clusters - 1) : ~skip_big(cluster_sizes[l], loc.average, threshold)
    /\ ~probe_again(cluster_sizes, labels, FirstCallProbe, loc.average)
    /\ loc.donor[FirstStarved] >= 0
    /\ loc.donor[FirstStarved] /= FirstCallProbe
    /\ centers[dim * FirstStarved] /= hist.centers[dim * FirstStarved]

(***************************************************************************)
(* C29: with at least one row and one cluster, labels of clusters and      *)
(* sizes equal to the label counts, every call of adjust_centers ends: the *)
(* stride loop ends, on the host side a starved cluster has its donor      *)
(* after no more than n_rows probes, and on the device side the starved    *)
(* clusters, probing together off one counter, all have their donors after *)
(* no more than n_rows probes each, however the increments interleave.     *)
(***************************************************************************)
StarvedUpTo(last) ==
    Cardinality({l \in 0..last : l < n_clusters
                    /\ ~skip_big(cluster_sizes[l], loc.average, threshold)})

AdjustEnded == pc \in {"adjust_done", "adjust_failed"}

C29_AdjustTerminates ==
    /\ (pc = "adjust_start") ~> AdjustEnded
    /\ [](pc \in {"host_probe", "host_update"} =>
             Len(loc.probes) <= n_rows * StarvedUpTo(loc.l))
    /\ [](pc = "kernel" =>
             /\ loc.count <= n_rows * StarvedUpTo(n_clusters - 1)
             /\ Len(loc.probes) = loc.count)

\* Two warps have probed together, one of them more than once, and the call has ended.
C29_Witness ==
    /\ pc = "adjust_done"
    /\ residency = AllOn("cudaMemoryTypeDevice")
    /\ StarvedUpTo(n_clusters - 1) >= 2
    /\ loc.count > StarvedUpTo(n_clusters - 1)

(***************************************************************************)
(* C30: on the device side of adjust_centers, where the starved clusters   *)
(* are adjusted side by side, the center row an adjustment reads (that of  *)
(* the cluster of its donor row) is a row no adjustment of the call        *)
(* writes: with a threshold below 1 and sizes equal to the label counts    *)
(* the cluster of a donor is not starved, its warp has left at once, and   *)
(* its center row is as it was when the kernel was launched.               *)
(***************************************************************************)
DonorsOfKernel ==
    {loc.warps[l].i : l \in {m \in DOMAIN loc.warps : loc.warps[m].at = "update"}}
        \cup {loc.donor[l] : l \in {m \in DOMAIN loc.donor : loc.donor[m] >= 0}}

C30_DonorClusterNotWritten ==
    pc = "kernel" =>
        \A i \in DonorsOfKernel :
            LET li == labels[i]
            IN  /\ skip_big(cluster_sizes[li], loc.average, threshold)
                /\ loc.warps[li].at = "exit"
                /\ loc.donor[li] < 0
                /\ \A j \in 0..(dim - 1) : centers[j + dim * li] = hist.centers[j + dim * li]

\* One starved cluster has been adjusted and another is about to be, at once.
C30_Witness ==
    /\ pc = "kernel"
    /\ \E l, m \in DOMAIN loc.donor :
          /\ l /= m
          /\ loc.donor[l] >= 0
          /\ loc.warps[m].at = "update"

=============================================================================
